---- MODULE Spec2Model ----
(***************************************************************************)
(* Model of the view engine of lobre/tdispo: discovery and compilation of  *)
(* html files into views (Parse), layout resolution and buffered rendering *)
(* (Render / render / renderBuffered), and turbo stream rendering          *)
(* (RenderStream).  The repository carries several generations of the      *)
(* engine; each generation that the properties below talk about is         *)
(* modelled by its own operators:                                          *)
(*   - bow/views.go   Views.Parse, Views.Render, Views.render              *)
(*   - web.go         parseViews, application.render                       *)
(*   - bow/turbo.go   Views.RenderStream, over the registry built by the   *)
(*                    Parse of the same generation (one template holding   *)
(*                    every partial)                                       *)
(*   - go.mod         the earlier Views.RenderStream kept in that file,    *)
(*                    which answers its errors itself and knows no hook,   *)
(*                    over the same registry of partials                   *)
(*                                                                         *)
(* Strings are sequences of tokens: "/", "." and "_" are always tokens of  *)
(* their own, every other token stands for a run of ordinary characters.   *)
(***************************************************************************)
EXTENDS Integers, Sequences, FiniteSets, TLC

VARIABLES
    gen,         \* the generation of the engine that runs: "views", "web", "turbo" or
                 \* "stream"
    fsys,        \* the filesystem and root handed to Parse: root, walk error flag and
                 \* files in walk order
    heap,        \* *template.Template objects of bow/views.go, by address
    pages,       \* Views.pages: name -> address
    partials,    \* Views.partials: name -> address
    injectData,  \* Views.injectData: is a hook configured
    parseErr,    \* what Views.Parse returned: "unparsed", "nil" or an error
    appViews,    \* application.views of web.go: name -> view{Template, partial}
    appErr,      \* what parseViews returned
    setPartials, \* Views.partials of the generation of turbo.go: one template set
    setErr,      \* what the Parse of that generation returned
    req,         \* the requests being served, by request
    app          \* the application: its tables, the session of a visitor, the
                 \* request of the visitor and the event a handler asked for

vars == <<gen, fsys, heap, pages, partials, injectData, parseErr, appViews, appErr,
          setPartials, setErr, req, app>>

(***************************************************************************)
(* Bounds of the model.                                                    *)
(***************************************************************************)
\* how many of the optional files may be missing from the tree
MaxMissing == 1
\* how many files of the tree may be unreadable or malformed
MaxFaults == 1
\* how many files a tree drawn for the naming of views may hold
MaxFiles == 3
\* how many copies of requests WithLayout and StripLayout may make in all
MaxCopies == 2
\* how many guests the table of guests may hold
MaxGuests == 2
\* how many events the table of events may hold
MaxEvents == 1

(***************************************************************************)
(* String helpers (path/filepath and strings of the Go standard library).   *)
(***************************************************************************)
partialPrefix == "_"
layoutsFolder == <<"layouts">>
PathSeparator == "/"

\* positions of tok in s
Positions(s, tok) == {i \in 1..Len(s) : s[i] = tok}

Max(S) == CHOOSE x \in S : \A y \in S : y <= x

Min(S) == CHOOSE x \in S : \A y \in S : x <= y

\* filepath.Base: the last element of the path
Base(path) ==
    IF path = <<>> THEN <<".">>
    ELSE LET seps == Positions(path, PathSeparator)
         IN  IF seps = {} THEN path ELSE SubSeq(path, Max(seps) + 1, Len(path))

\* filepath.Dir: all but the last element of the path
Dir(path) ==
    LET seps == Positions(path, PathSeparator)
    IN  IF seps = {} THEN <<".">> ELSE SubSeq(path, 1, Max(seps) - 1)

\* filepath.Ext: the suffix beginning at the final dot of the last element
Ext(path) ==
    LET seps == Positions(path, PathSeparator)
        from == IF seps = {} THEN 1 ELSE Max(seps) + 1
        dots == {i \in Positions(path, ".") : i >= from}
    IN  IF dots = {} THEN <<>> ELSE SubSeq(path, Max(dots), Len(path))

\* strings.TrimSuffix
TrimSuffix(s, suffix) ==
    IF Len(suffix) <= Len(s) /\ SubSeq(s, Len(s) - Len(suffix) + 1, Len(s)) = suffix
    THEN SubSeq(s, 1, Len(s) - Len(suffix))
    ELSE s

\* strings.Split(s, sep): the substrings between the separators
RECURSIVE Split(_, _)
Split(s, sep) ==
    LET seps == Positions(s, sep)
    IN  IF seps = {} THEN <<s>>
        ELSE <<SubSeq(s, 1, Min(seps) - 1)>> \o Split(SubSeq(s, Min(seps) + 1, Len(s)), sep)

\* filepath.Join: the non-empty elements joined by the separator
RECURSIVE Join(_)
Join(elems) ==
    IF elems = <<>> THEN <<>>
    ELSE LET rest == Join(Tail(elems))
         IN  IF Head(elems) = <<>> THEN rest
             ELSE IF rest = <<>> THEN Head(elems)
             ELSE Head(elems) \o <<PathSeparator>> \o rest

\* s[0:1] of Go: the first byte of s; a panic on the empty string
FirstByte(s) == IF s = <<>> THEN "panic" ELSE s[1]

\* base[0:1] in templateName is out of range when the base name is nothing but
\* its extension: templateName panics
namePanics(path) == TrimSuffix(Base(path), Ext(Base(path))) = <<>>

\* templateName returns a template name from a path: extension removed, leading
\* "_" removed, root directory trimmed
templateName(path) ==
    LET base0 == TrimSuffix(Base(path), Ext(Base(path)))
        base  == IF FirstByte(base0) = partialPrefix THEN Tail(base0) ELSE base0
        dirs  == Split(Dir(path), PathSeparator)
        dir   == Join(Tail(dirs))
    IN  Join(<<dir, base>>)

(***************************************************************************)
(* Templates.  A body is a sequence of instructions; executing it appends  *)
(* to the output or stops with an execution error.                         *)
(***************************************************************************)
Text(t)          == [op |-> "text", arg |-> <<t>>]
Token            == [op |-> "token", arg |-> <<>>]
Include(name)    == [op |-> "template", arg |-> name]
Partial(name)    == [op |-> "partial", arg |-> name]
PartialNil(name) == [op |-> "partialnil", arg |-> name]
Fail             == [op |-> "fail", arg |-> <<>>]
Field(key)       == [op |-> "field", arg |-> key]

EmptyMap == << >>

\* m[k] = v of Go: the later assignment replaces the earlier one
Put(m, k, v) == (k :> v) @@ m

\* a template that New created and no successful Parse has filled
Incomplete == [parsed |-> FALSE, body |-> <<>>]

Parsed(body) == [parsed |-> TRUE, body |-> body]

\* the binding of "partial" in defaultFuncs, overridden at rendering
defaultFuncs == [bound |-> FALSE, req |-> "none"]

(***************************************************************************)
(* The source tree.  Files are listed in the lexical order of fs.WalkDir.  *)
(***************************************************************************)
File(path, body) == [path |-> path, body |-> body, fault |-> "none"]

ItemFile    == File(<<"root", "/", "_", "item", ".", "html">>,
                    <<[op |-> "text", arg |-> <<"<", "li", ">", "X", "<", "/", "li", ">">>]>>)
NavFile     == File(<<"root", "/", "_", "nav", ".", "html">>, <<Text("nav:"), Token>>)
OopsFile    == File(<<"root", "/", "_", "oops", ".", "html">>, <<Text("oops"), Fail>>)
WhoFile     == File(<<"root", "/", "_", "who", ".", "html">>, <<Text("who:"), Field("Guest")>>)
BadFile     == File(<<"root", "/", "bad", ".", "html">>, <<Text("bad"), Fail>>)
HomeFile    == File(<<"root", "/", "home", ".", "html">>,
                    <<Text("home:"), Token, Field("Guest")>>)
IndexFile   == File(<<"root", "/", "index", ".", "html">>,
                    <<Text("idx:"), Token, Partial(<<"nav">>)>>)
AltFile     == File(<<"root", "/", "layouts", "/", "alt", ".", "html">>,
                    <<Text("<alt>"), Include(<<"main">>), Text("</alt>")>>)
BaseFile    == File(<<"root", "/", "layouts", "/", "base", ".", "html">>,
                    <<Text("<base>"), Include(<<"main">>), Text("</base>")>>)
PartialFile == File(<<"root", "/", "layouts", "/", "partial", ".", "html">>,
                    <<Text("<part>"), Include(<<"main">>), Text("</part>")>>)
NavPageFile == File(<<"root", "/", "nav", ".", "html">>, <<Text("navpage")>>)
NestFile    == File(<<"root", "/", "nest", ".", "html">>,
                    <<Text("nest:"), PartialNil(<<"nav">>), PartialNil(<<"who">>)>>)
NotesFile   == File(<<"root", "/", "notes", ".", "txt">>, <<>>)
WrapFile    == File(<<"root", "/", "wrap", ".", "html">>,
                    <<Text("wrap:"), Partial(<<"oops">>)>>)

Tree == <<ItemFile, NavFile, OopsFile, WhoFile, BadFile, HomeFile, IndexFile, AltFile, BaseFile,
          PartialFile, NavPageFile, NestFile, NotesFile, WrapFile>>

\* the files a tree may lack: _nav.html and the three layouts
Optional == {2, 8, 9, 10}

Faults == {"read", "parse"}

\* the files that may be unreadable or malformed: _nav.html, bad.html,
\* home.html and layouts/base.html
Fragile == {2, 5, 6, 9}

\* the subsequence of Tree at the positions keep, with the faults of fault
RECURSIVE Pick(_, _, _)
Pick(i, keep, fault) ==
    IF i > Len(Tree) THEN <<>>
    ELSE (IF i \in keep THEN <<[Tree[i] EXCEPT !.fault = fault[i]]>> ELSE <<>>)
         \o Pick(i + 1, keep, fault)

Faulty(f) == {i \in 1..Len(Tree) : f[i] # "none"}

FaultMaps ==
    UNION {{[i \in 1..Len(Tree) |-> IF i \in S THEN g[i] ELSE "none"] : g \in [S -> Faults]} :
           S \in {T \in SUBSET Fragile : Cardinality(T) <= MaxFaults}}

\* the trees handed to Parse: a failing walk counts as a fault
Trees ==
    UNION {{[root |-> <<"root">>, walkErr |-> w,
             files |-> Pick(1, (1..Len(Tree)) \ missing, f)] :
               w \in {FALSE},
               f \in {g \in FaultMaps : Faulty(g) \cap missing = {}}} :
           missing \in {m \in SUBSET Optional : Cardinality(m) <= MaxMissing}}
    \cup {[root |-> <<"root">>, walkErr |-> TRUE, files |-> Tree]}

(***************************************************************************)
(* Trees for the classification and the naming of views: a root and a few  *)
(* files under it, in the lexical order of fs.WalkDir.                     *)
(***************************************************************************)
\* the roots Parse is called with: one segment, two segments, the directory itself
NameRoots == {<<"root">>, <<"a", "/", "b">>, <<".">>}

\* the files, by their path relative to the root; _main.html derives the name
\* of the root template of a view
NameFiles ==
    << <<".", "html">>,
       <<"_", ".", "html">>,
       <<"_", "main", ".", "html">>,
       <<"_", "nav", ".", "html">>,
       <<"_", "sub", ".", "html">>,
       <<"home", ".", "html">>,
       <<"layouts", "/", "_", "side", ".", "html">>,
       <<"layouts", "/", "base", ".", "html">>,
       <<"nav", ".", "html">>,
       <<"notes", ".", "txt">>,
       <<"sub", "/", "_", ".", "html">>,
       <<"sub", "/", "home", ".", "html">> >>

\* path.Join(root, name) of fs.WalkDir: the walk of "." yields the bare names
Under(root, rel) == IF root = <<".">> THEN rel ELSE root \o <<PathSeparator>> \o rel

\* the content of the i-th file tells the files apart
NameFile(root, i) == File(Under(root, NameFiles[i]), <<[op |-> "text", arg |-> NameFiles[i]]>>)

RECURSIVE PickNames(_, _, _)
PickNames(i, keep, root) ==
    IF i > Len(NameFiles) THEN <<>>
    ELSE (IF i \in keep THEN <<NameFile(root, i)>> ELSE <<>>) \o PickNames(i + 1, keep, root)

NameTrees ==
    {[root |-> r, walkErr |-> FALSE, files |-> PickNames(1, keep, r)] :
        r \in NameRoots,
        keep \in {k \in SUBSET (1..Len(NameFiles)) : Cardinality(k) <= MaxFiles}}

(***************************************************************************)
(* Discovery: the callback of fs.WalkDir.                                  *)
(***************************************************************************)
\* the kind the switch of the walk gives an html file
Kind(path) ==
    LET dirs == Split(Dir(path), PathSeparator)
    IN  IF FirstByte(Base(path)) = partialPrefix THEN "partial"
        ELSE IF Len(dirs) > 1 /\ dirs[2] = layoutsFolder THEN "layout"
        ELSE "page"

IsHtml(path) == Ext(path) = <<".", "html">>

\* the paths of the files of the given kind, in walk order
RECURSIVE Discover(_, _)
Discover(files, kind) ==
    IF files = <<>> THEN <<>>
    ELSE (IF IsHtml(Head(files).path) /\ Kind(Head(files).path) = kind
          THEN <<Head(files)>> ELSE <<>>) \o Discover(Tail(files), kind)

(***************************************************************************)
(* parseTemplate: the main file and its associated files.                  *)
(***************************************************************************)
\* the body calls a helper of the function map given to parseTemplate
usesFuncs(body) == \E i \in 1..Len(body) : body[i].op \in {"partial", "partialnil"}

\* the loop over the associated files: a read error stops it, the error of
\* tmpl.New(name).Parse is dropped and leaves the template incomplete.
\* tmpl.New of html/template with the name of an existing template resets that
\* template and takes it out of the set: for the name main, that template is
\* the root, which parseTemplate returns.  The root is then empty, what was
\* attached to it is gone, and so is its function map (funcs = FALSE): a file
\* attached later that calls a helper does not parse.
RECURSIVE attachTo(_, _, _)
attachTo(blocks, associated, funcs) ==
    IF associated = <<>> THEN [err |-> "nil", blocks |-> blocks]
    ELSE LET f == Head(associated)
         IN  IF f.fault = "read" THEN [err |-> "read", blocks |-> blocks]
             ELSE IF namePanics(f.path) THEN [err |-> "panic", blocks |-> blocks]
             ELSE IF templateName(f.path) = <<"main">>
             THEN attachTo(Put(EmptyMap, <<"main">>, Incomplete), Tail(associated), FALSE)
             ELSE attachTo(Put(blocks, templateName(f.path),
                               IF f.fault = "parse" \/ (~funcs /\ usesFuncs(f.body))
                               THEN Incomplete ELSE Parsed(f.body)),
                           Tail(associated), funcs)

attach(blocks, associated) == attachTo(blocks, associated, TRUE)

NoFile == [path |-> <<>>, body |-> <<>>, fault |-> "none"]

\* the template parseTemplate returns once the associated files are attached
attached(a) == [err |-> a.err, tmpl |-> [blocks |-> a.blocks, funcs |-> defaultFuncs]]

\* parseTemplate of bow/views.go (main may be "", no main file)
parseTemplate(main, associated) ==
    IF main.path # <<>> /\ main.fault # "none"
    THEN [err |-> main.fault,
          tmpl |-> [blocks |-> Put(EmptyMap, <<"main">>, Incomplete), funcs |-> defaultFuncs]]
    ELSE attached(attach(Put(EmptyMap, <<"main">>,
                             IF main.path = <<>> THEN Incomplete ELSE Parsed(main.body)),
                         associated))

\* the loops of Parse over pages and partials: compiled views are stored one by
\* one, the first error returns
RECURSIVE compileAll(_, _, _)
compiled(t, mains, associated, acc) ==
    IF t.err # "nil" THEN [err |-> t.err, views |-> acc]
    ELSE IF namePanics(Head(mains).path) THEN [err |-> "panic", views |-> acc]
    ELSE compileAll(Tail(mains), associated, Put(acc, templateName(Head(mains).path), t.tmpl))

compileAll(mains, associated, acc) ==
    IF mains = <<>> THEN [err |-> "nil", views |-> acc]
    ELSE compiled(parseTemplate(Head(mains), associated), mains, associated, acc)

\* the loop of Views.Parse over the partials, after the loop over the pages
parsePartials(pg, pt) ==
    IF pg.err # "nil" THEN [err |-> pg.err, pages |-> pg.views, partials |-> EmptyMap]
    ELSE [err |-> pt.err, pages |-> pg.views, partials |-> pt.views]

\* a faulty variant of Views.Parse: the pages are compiled without the layouts
ParseBarePages(fs) ==
    IF fs.walkErr THEN [err |-> "walk", pages |-> EmptyMap, partials |-> EmptyMap]
    ELSE parsePartials(compileAll(Discover(fs.files, "page"), <<>>, EmptyMap),
                       compileAll(Discover(fs.files, "partial"), <<>>, EmptyMap))

\* a faulty variant of Views.Parse: the partials are compiled with the layouts
ParseWrappedPartials(fs) ==
    IF fs.walkErr THEN [err |-> "walk", pages |-> EmptyMap, partials |-> EmptyMap]
    ELSE parsePartials(compileAll(Discover(fs.files, "page"), Discover(fs.files, "layout"),
                                  EmptyMap),
                       compileAll(Discover(fs.files, "partial"), Discover(fs.files, "layout"),
                                  EmptyMap))

\* Views.Parse of bow/views.go: what it returns and what it leaves in views
ParseResult(fs) ==
    IF fs.walkErr THEN [err |-> "walk", pages |-> EmptyMap, partials |-> EmptyMap]
    ELSE parsePartials(compileAll(Discover(fs.files, "page"), Discover(fs.files, "layout"),
                                  EmptyMap),
                       compileAll(Discover(fs.files, "partial"), <<>>, EmptyMap))

\* the views of web.go: a template and the flag that tells partials from pages
flagged(m, b) == [n \in DOMAIN m |-> [tmpl |-> m[n], partial |-> b]]

viewMap(pg, pt) ==
    IF pg.err # "nil" THEN [err |-> pg.err, views |-> EmptyMap]
    ELSE IF pt.err # "nil" THEN [err |-> pt.err, views |-> EmptyMap]
    ELSE [err |-> "nil", views |-> flagged(pt.views, TRUE) @@ flagged(pg.views, FALSE)]

\* parseViews of web.go: every view gets the layouts and the partials attached;
\* the map is returned only when no error occurred
parseViews(fs) ==
    IF fs.walkErr THEN [err |-> "walk", views |-> EmptyMap]
    ELSE viewMap(compileAll(Discover(fs.files, "page"),
                            Discover(fs.files, "layout") \o Discover(fs.files, "partial"),
                            EmptyMap),
                 compileAll(Discover(fs.files, "partial"),
                            Discover(fs.files, "layout") \o Discover(fs.files, "partial"),
                            EmptyMap))

NilTemplate == [blocks |-> EmptyMap, funcs |-> defaultFuncs]

partialSet(pg, t) ==
    IF pg.err # "nil" THEN [err |-> pg.err, pages |-> pg.views, partials |-> NilTemplate]
    ELSE [err |-> t.err, pages |-> pg.views,
          partials |-> IF t.err = "nil" THEN t.tmpl ELSE NilTemplate]

\* Views.Parse of the generation of RenderStream: pages carry layouts and
\* partials, one template without a main file carries every partial
ParseSetResult(fs) ==
    IF fs.walkErr THEN [err |-> "walk", pages |-> EmptyMap, partials |-> NilTemplate]
    ELSE partialSet(compileAll(Discover(fs.files, "page"),
                               Discover(fs.files, "layout") \o Discover(fs.files, "partial"),
                               EmptyMap),
                    parseTemplate(NoFile, Discover(fs.files, "partial")))

(***************************************************************************)
(* Requests, their context and their data.                                 *)
(***************************************************************************)
Reqs == {"r1", "r2"}

\* nosurf.Token(r): the CSRF token of the request
nosurfToken(r) == IF r = "r1" THEN "token-1" ELSE "token-2"

NoContext == [hasLayout |-> FALSE, layout |-> <<>>, strip |-> FALSE]

\* WithLayout: the context of the copy of the request
WithLayout(ctx, layout) == [ctx EXCEPT !.hasLayout = TRUE, !.layout = layout]

\* StripLayout: the context of the copy of the request
StripLayout(ctx) == [ctx EXCEPT !.strip = TRUE]

\* OptimizeTurboFrame: strips the layout of turbo frame requests
OptimizeTurboFrame(ctx, turboFrame) == IF turboFrame THEN StripLayout(ctx) ELSE ctx

NilData == [isNil |-> TRUE, kv |-> EmptyMap]

MapData(kv) == [isNil |-> FALSE, kv |-> kv]

\* what is left of the data when an injector has panicked
Panicked == [isNil |-> TRUE, kv |-> "panic" :> "assignment to entry in nil map"]

\* data[k] = v: the assignment to an entry of a nil map panics
Assign(data, k, v) == IF data.isNil THEN Panicked ELSE [data EXCEPT !.kv = Put(@, k, v)]

\* defaultInjectData: data["CSRFToken"] = nosurf.Token(r)
defaultInjectData(r, data) == Assign(data, "CSRFToken", nosurfToken(r))

\* the hook given to Parse, when one is configured: it adds the guest of the request
hook(r, data) == Assign(data, "Guest", r)

(***************************************************************************)
(* Addresses of templates.  Views.pages and Views.partials of bow/views.go *)
(* hold pointers; Clone allocates a new template.                          *)
(***************************************************************************)
Addr(reg, name) == [reg |-> reg, name |-> name]

CloneAddr(r) == Addr("clone", <<r>>)

NestedAddr(r) == Addr("nested", <<r>>)

Shared(h) == {a \in DOMAIN h : a.reg \in {"pages", "partials"}}

\* a faulty variant of the installation: Funcs is called on the registry's
\* template itself, without Clone, and that template is executed
installFuncs(h, src, dst, r) ==
    [heap |-> Put(h, src, [h[src] EXCEPT !.funcs = [bound |-> TRUE, req |-> r]]),
     tmpl |-> src]

\* a faulty variant of the installation: Funcs is called on the registry's
\* template before Clone, and the copy is executed
installThenClone(h, src, dst, r) ==
    [heap |-> Put(Put(h, src, [h[src] EXCEPT !.funcs = [bound |-> TRUE, req |-> r]]),
                  dst, [h[src] EXCEPT !.funcs = [bound |-> TRUE, req |-> r]]),
     tmpl |-> dst]

\* tmpl.Clone() followed by tmpl.Funcs(funcs) in Views.render: the request's
\* "partial" closure is installed on the copy at dst, which is what is executed
cloneFuncs(h, src, dst, r) ==
    [heap |-> Put(h, dst, [h[src] EXCEPT !.funcs = [bound |-> TRUE, req |-> r]]),
     tmpl |-> dst]

(***************************************************************************)
(* Execution of a template (ExecuteTemplate) and Views.render.             *)
(***************************************************************************)
RECURSIVE execute(_, _, _, _), run(_, _, _, _, _)

\* a faulty variant of the injection: the configured injector is not called
injectDefaultOnly(r, data, hooked) ==
    defaultInjectData(r, IF data.isNil THEN MapData(EmptyMap) ELSE data)

\* a faulty variant of the injection: a nil map is handed to the injectors
injectNil(r, data, hooked) ==
    IF hooked THEN hook(r, defaultInjectData(r, data)) ELSE defaultInjectData(r, data)

\* the data Views.render executes with: a nil map is replaced, then the
\* default injector and the configured one run
inject(r, data, hooked) ==
    IF hooked
    THEN hook(r, defaultInjectData(r, IF data.isNil THEN MapData(EmptyMap) ELSE data))
    ELSE defaultInjectData(r, IF data.isNil THEN MapData(EmptyMap) ELSE data)

\* a faulty variant of renderBuffered: the template is executed straight into
\* the writer, so that what precedes a failure reaches it
unbuffered(w, e) ==
    [err |-> e.err, why |-> e.why, w |-> w \o e.out, buf |-> e.out, data |-> e.data]

\* what renderBuffered does with the outcome e of the execution
buffered(w, e) ==
    [err |-> e.err, why |-> e.why, w |-> IF e.err THEN w ELSE w \o e.out, buf |-> e.out,
     data |-> e.data]

\* renderBuffered: the template is executed into a buffer, and the buffer
\* reaches the writer w only when the execution succeeded
renderBuffered(h, w, t, name, data) == buffered(w, execute(h, t, name, data))

\* Views.render into the buffer w, as the closure calls it
render(h, w, r, tmpl, name, data) ==
    renderBuffered(cloneFuncs(h, tmpl, NestedAddr(r), r).heap, w,
                   cloneFuncs(h, tmpl, NestedAddr(r), r).tmpl, name,
                   inject(r, data, injectData))

\* what the closure returns to the template: template.HTML(buf.String())
html(b) == [err |-> b.err, why |-> b.why, out |-> b.w, data |-> b.data]

\* the "partial" helper bound in the template: the default of defaultFuncs takes
\* no argument and fails when called; the closure of Views.render looks the
\* partial up and renders it for the request it was made for
partialFunc(h, binding, name, data) ==
    IF ~binding.bound THEN [err |-> TRUE, why |-> "call", out |-> <<>>, data |-> data]
    ELSE IF name \notin DOMAIN partials
    THEN [err |-> TRUE, why |-> "partial not found", out |-> <<>>, data |-> data]
    ELSE html(render(h, <<>>, binding.req, partials[name], <<"main">>, data))

\* ExecuteTemplate(buf, name, data) on the template at address t: what reached
\* the buffer, whether an error stopped it and which one (an error returned by
\* a helper is wrapped in the error of the execution), the data map as left by
\* the helpers
execute(h, t, name, data) ==
    IF name \notin DOMAIN h[t].blocks \/ ~h[t].blocks[name].parsed
    THEN [err |-> TRUE, why |-> "incomplete", out |-> <<>>, data |-> data]
    ELSE run(h, t, h[t].blocks[name].body, data, <<>>)

\* a faulty variant of resume: the error of a helper is dropped, and the
\* execution goes on as if the helper had printed nothing
resumeSilent(h, t, body, data, out, call) ==
    run(h, t, Tail(body), IF Head(body).op = "partialnil" THEN data ELSE call.data,
        IF call.err THEN out ELSE out \o call.out)

\* the execution goes on after {{ template }} or {{ partial }} returned call;
\* a map given to a partial is shared with it, a nil one is not
resume(h, t, body, data, out, call) ==
    IF call.err
    THEN [err |-> TRUE, why |-> call.why,
          out |-> IF Head(body).op = "template" THEN out \o call.out ELSE out,
          data |-> IF Head(body).op = "partialnil" THEN data ELSE call.data]
    ELSE run(h, t, Tail(body), IF Head(body).op = "partialnil" THEN data ELSE call.data,
             out \o call.out)

run(h, t, body, data, out) ==
    IF body = <<>> THEN [err |-> FALSE, why |-> "nil", out |-> out, data |-> data]
    ELSE CASE Head(body).op = "text" -> run(h, t, Tail(body), data, out \o Head(body).arg)
           [] Head(body).op = "token" ->
                run(h, t, Tail(body), data,
                    Append(out, IF "CSRFToken" \in DOMAIN data.kv
                                THEN data.kv["CSRFToken"] ELSE "<no value>"))
           [] Head(body).op = "field" ->
                run(h, t, Tail(body), data,
                    Append(out, IF Head(body).arg \in DOMAIN data.kv
                                THEN data.kv[Head(body).arg] ELSE "<no value>"))
           [] Head(body).op = "template" ->
                resume(h, t, body, data, out, execute(h, t, Head(body).arg, data))
           [] Head(body).op \in {"partial", "partialnil"} ->
                resume(h, t, body, data, out,
                       partialFunc(h, h[t].funcs, Head(body).arg,
                                   IF Head(body).op = "partial" THEN data ELSE NilData))
           [] OTHER -> [err |-> TRUE, why |-> "fail", out |-> out, data |-> data]

(***************************************************************************)
(* Responses.                                                              *)
(***************************************************************************)
streamMime == "text/vnd.turbo-stream.html"

InternalServerError == <<"Internal Server Error">>

\* http.DetectContentType, for the two kinds of bodies the views produce
DetectContentType(w) ==
    IF w # <<>> /\ Head(w) \in {"<base>", "<alt>", "<part>", "<turbo-stream action=\""}
    THEN "text/html; charset=utf-8"
    ELSE "text/plain; charset=utf-8"

\* the Content-Type that leaves with the first byte of the body w: the header
\* map is read once, at the first Write, and what is declared later is lost;
\* an undeclared type is detected from the body
wired(q, w) ==
    IF q.wire # "" THEN q.wire
    ELSE IF q.header # "" THEN q.header
    ELSE DetectContentType(w)

\* ServerError: http.Error with status 500 on the response writer
ServerError(q, err) ==
    [q EXCEPT !.pc = "done", !.err = err, !.header = "text/plain; charset=utf-8",
              !.wire = IF @ # "" THEN @ ELSE "text/plain; charset=utf-8",
              !.status = 500, !.body = @ \o InternalServerError]

\* a successful write of the buffer: the first Write sends status 200
Written(q, w) == [q EXCEPT !.pc = "done", !.status = 200, !.wire = wired(q, w), !.body = w]

Idle ==
    [pc |-> "idle", entry |-> "none", name |-> <<>>, ctx |-> NoContext, action |-> "none",
     target |-> <<>>, data |-> NilData, tmpl |-> Addr("none", <<>>), block |-> <<>>,
     header |-> "", wire |-> "", status |-> 0, body |-> <<>>, err |-> "nil", why |-> "nil",
     buf |-> <<>>, held |-> <<NoContext>>, with |-> 0]

\* the inputs of the requests
Names ==
    {<<"home">>, <<"index">>, <<"bad">>, <<"wrap">>, <<"nav">>, <<"oops">>, <<"who">>, <<"ghost">>,
     <<"main">>, <<"item">>, <<"nest">>}

\* the targets of the streams: an identifier, and one that holds a quote
Targets == {<<"list">>, <<"it", "\"", "em">>}

Overrides == {NoContext, WithLayout(NoContext, <<"alt">>), WithLayout(NoContext, <<"ghost">>)}

Datas == {NilData, MapData("Title" :> "t")}

ActionAppend == "append"

ActionReplace == "replace"

ActionRemove == "remove"

\* the stream actions the handlers ask for
Actions == {ActionAppend, ActionReplace, ActionRemove}

(***************************************************************************)
(* Startup: the three generations of Parse.                                *)
(***************************************************************************)
\* the registry and the templates that Views.Parse leaves when it ends with res
pagesOf(res) == [n \in DOMAIN res.pages |-> Addr("pages", n)]

partialsOf(res) == [n \in DOMAIN res.partials |-> Addr("partials", n)]

heapOf(res) ==
    [a \in {Addr("pages", n) : n \in DOMAIN res.pages}
           \cup {Addr("partials", n) : n \in DOMAIN res.partials} |->
       IF a.reg = "pages" THEN res.pages[a.name] ELSE res.partials[a.name]]

Parsing(res, hooked) ==
    /\ injectData' = hooked
    /\ parseErr' = res.err
    /\ pages' = pagesOf(res)
    /\ partials' = partialsOf(res)
    /\ heap' = heapOf(res)

\* Views.Parse of bow/views.go
Parse ==
    /\ gen = "views" /\ parseErr = "unparsed"
    /\ \E hooked \in BOOLEAN : Parsing(ParseResult(fsys), hooked)
    /\ UNCHANGED <<app, gen, fsys, appViews, appErr, setPartials, setErr, req>>

ParsingViews(res) ==
    /\ appErr' = res.err
    /\ appViews' = res.views

\* parseViews of web.go, and the assignment of its result to application.views
ParseViews ==
    /\ gen = "web" /\ appErr = "unparsed"
    /\ ParsingViews(parseViews(fsys))
    /\ UNCHANGED <<app, gen, fsys, heap, pages, partials, injectData, parseErr, setPartials, setErr, req>>

\* the templates of the pages, where the partials are one template set
heapOfPages(res) == [a \in {Addr("pages", n) : n \in DOMAIN res.pages} |-> res.pages[a.name]]

ParsingSet(res, hooked) ==
    /\ setErr' = res.err
    /\ setPartials' = [tmpl |-> res.partials, hydrate |-> hooked]
    /\ pages' = pagesOf(res)
    /\ heap' = heapOfPages(res)

\* Views.Parse of the generation of RenderStream
ParseSet ==
    /\ gen \in {"turbo", "stream"} /\ setErr = "unparsed"
    /\ \E hooked \in BOOLEAN :
         /\ hooked => gen = "turbo"
         /\ ParsingSet(ParseSetResult(fsys), hooked)
    /\ UNCHANGED <<app, gen, fsys, partials, injectData, parseErr, appViews, appErr, req>>

(***************************************************************************)
(* Views.Render of bow/views.go, in two steps: up to the call of           *)
(* renderBuffered (lookup, layout, Clone, Funcs, injection), and           *)
(* renderBuffered with the answer to its error.                            *)
(***************************************************************************)
\* Views.render up to renderBuffered, for the template at address t
Prepare(r, q, t, block) ==
    LET c == cloneFuncs(heap, t, CloneAddr(r), r)
    IN  /\ heap' = c.heap
        /\ req' = [req EXCEPT ![r] = [q EXCEPT !.pc = "prepared", !.tmpl = c.tmpl,
                                               !.block = block,
                                               !.data = inject(r, q.data, injectData)]]

\* a faulty variant of the choice of the layout: the default is the layout of
\* partials
layoutOfPartial(ctx) ==
    IF ctx.hasLayout THEN Join(<<layoutsFolder, ctx.layout>>)
    ELSE Join(<<layoutsFolder, <<"partial">>>>)

\* a faulty variant of the choice of the layout: the override is ignored
layoutOfBase(ctx) == Join(<<layoutsFolder, <<"base">>>>)

\* the layout Views.Render looks up for a page
layoutOf(ctx) ==
    IF ctx.hasLayout THEN Join(<<layoutsFolder, ctx.layout>>)
    ELSE Join(<<layoutsFolder, <<"base">>>>)

Render(r, name, ctx, data) ==
    /\ gen = "views" /\ parseErr = "nil"
    /\ req[r].pc = "idle"
    /\ LET q == [Idle EXCEPT !.entry = "Render", !.name = name, !.ctx = ctx,
                               !.data = data, !.header = "text/html",
                               !.held = req[r].held, !.with = req[r].with]
           layout == layoutOf(ctx)
       IN  IF name \in DOMAIN partials
           THEN Prepare(r, q, partials[name], <<"main">>)
           ELSE IF name \notin DOMAIN pages
           THEN /\ req' = [req EXCEPT ![r] = ServerError(q, "view not found")]
                /\ UNCHANGED heap
           ELSE IF layout \notin DOMAIN heap[pages[name]].blocks
           THEN /\ req' = [req EXCEPT ![r] = ServerError(q, "layout not found")]
                /\ UNCHANGED heap
           ELSE Prepare(r, q, pages[name], IF ctx.strip THEN <<"main">> ELSE layout)
    /\ UNCHANGED <<app, gen, fsys, pages, partials, injectData, parseErr, appViews, appErr,
                   setPartials, setErr>>

\* the answer of Views.Render to what renderBuffered returned
answered(q, b) ==
    IF b.err
    THEN ServerError([q EXCEPT !.buf = b.buf, !.data = b.data, !.body = b.w, !.why = b.why],
                     "execution")
    ELSE Written([q EXCEPT !.buf = b.buf, !.data = b.data], b.w)

RenderBuffered(r) ==
    /\ req[r].pc = "prepared"
    /\ req' = [req EXCEPT ![r] =
                 answered(req[r], renderBuffered(heap, req[r].body, req[r].tmpl,
                                                 req[r].block, req[r].data))]
    /\ UNCHANGED <<app, gen, fsys, heap, pages, partials, injectData, parseErr, appViews, appErr,
                   setPartials, setErr>>

(***************************************************************************)
(* The requests a handler chain holds.  req[r].held lists the contexts of   *)
(* the request objects made for r: the one the server made, then the       *)
(* copies, in the order of their making.  req[r].with is the object the    *)
(* rendering handler was called with.                                      *)
(***************************************************************************)
\* the copies made so far, for all requests
Copies == LET n(r) == Len(req[r].held) - 1 IN n("r1") + n("r2")

\* a faulty variant of the copy: the context is set on the request itself,
\* which is returned
withContextInPlace(held, i, ctx) == Append([held EXCEPT ![i] = ctx], ctx)

\* r.WithContext(ctx): a shallow copy of the request i with the context ctx;
\* the request i keeps its own
withContext(held, i, ctx) == Append(held, ctx)

\* r2 = WithLayout(r, layout) in a middleware or a handler of r (ApplyLayout)
CallWithLayout(r, i, layout) ==
    /\ gen = "views" /\ parseErr = "nil"
    /\ req[r].pc = "idle" /\ req[r].with = 0
    /\ i \in 1..Len(req[r].held) /\ Copies < MaxCopies
    /\ req' = [req EXCEPT ![r].held = withContext(@, i, WithLayout(@[i], layout))]
    /\ UNCHANGED <<app, gen, fsys, heap, pages, partials, injectData, parseErr, appViews, appErr,
                   setPartials, setErr>>

\* r2 = StripLayout(r) in a middleware or a handler of r (OptimizeTurboFrame)
CallStripLayout(r, i) ==
    /\ gen = "views" /\ parseErr = "nil"
    /\ req[r].pc = "idle" /\ req[r].with = 0
    /\ i \in 1..Len(req[r].held) /\ Copies < MaxCopies
    /\ req' = [req EXCEPT ![r].held = withContext(@, i, StripLayout(@[i]))]
    /\ UNCHANGED <<app, gen, fsys, heap, pages, partials, injectData, parseErr, appViews, appErr,
                   setPartials, setErr>>

\* next.ServeHTTP(w, r): the handler that renders is called with the request i
ServeHTTP(r, i) ==
    /\ gen = "views" /\ parseErr = "nil"
    /\ req[r].pc = "idle" /\ req[r].with = 0
    /\ i \in 1..Len(req[r].held)
    /\ req' = [req EXCEPT ![r].with = i]
    /\ UNCHANGED <<app, gen, fsys, heap, pages, partials, injectData, parseErr, appViews, appErr,
                   setPartials, setErr>>

\* views.Render(w, r, name, data) in the handler, with the request it was given
RenderHeld(r, name, data) ==
    /\ req[r].with # 0
    /\ Render(r, name, req[r].held[req[r].with], data)

(***************************************************************************)
(* application.render of web.go.                                           *)
(***************************************************************************)
defaultLayout == <<"base">>

defaultLayoutPartial == <<"partial">>

\* the layout application.render ends with, or the error it stops with
appLayout(view, ctx) ==
    LET has(l) == l \in DOMAIN view.tmpl.blocks
        named == Join(<<layoutsFolder, ctx.layout>>)
        first == IF ctx.hasLayout THEN named ELSE Join(<<layoutsFolder, defaultLayout>>)
        second == IF view.partial THEN Join(<<layoutsFolder, defaultLayoutPartial>>) ELSE first
    IN  IF ctx.hasLayout /\ ~has(named) THEN [err |-> "layout not found", layout |-> named]
        ELSE [err |-> "nil", layout |-> IF has(second) THEN second ELSE <<"main">>]

\* addDefaultData: the flash message of the session is added
addDefaultData(data) ==
    [(IF data.isNil THEN MapData(EmptyMap) ELSE data) EXCEPT !.kv = Put(@, "Flash", "flash")]

AppTemplate == Addr("views", <<>>)

\* the execution into the buffer, and the copy of the buffer to the response
appExecuted(q, e) ==
    IF e.err THEN ServerError([q EXCEPT !.buf = e.out, !.why = e.why], "execution")
    ELSE Written([q EXCEPT !.buf = e.out], q.body \o e.out)

appResolved(q, view, l) ==
    IF l.err # "nil" THEN ServerError(q, l.err)
    ELSE appExecuted([q EXCEPT !.block = l.layout, !.data = addDefaultData(q.data)],
                     execute(AppTemplate :> view.tmpl, AppTemplate, l.layout,
                             addDefaultData(q.data)))

\* a faulty variant of application.render: an unknown view is answered with an
\* empty page
appRenderSilent(q) ==
    IF q.name \notin DOMAIN appViews THEN Written(q, <<>>)
    ELSE appResolved(q, appViews[q.name], appLayout(appViews[q.name], q.ctx))

appRender(q) ==
    IF q.name \notin DOMAIN appViews THEN ServerError(q, "view not found")
    ELSE appResolved(q, appViews[q.name], appLayout(appViews[q.name], q.ctx))

AppRender(r, name, ctx, data) ==
    /\ gen = "web" /\ appErr = "nil"
    /\ req[r].pc = "idle"
    /\ req' = [req EXCEPT ![r] =
                 appRender([Idle EXCEPT !.entry = "AppRender", !.name = name, !.ctx = ctx,
                                        !.data = data])]
    /\ UNCHANGED <<app, gen, fsys, heap, pages, partials, injectData, parseErr, appViews, appErr,
                   setPartials, setErr>>

(***************************************************************************)
(* Views.RenderStream of bow/turbo.go.                                     *)
(***************************************************************************)
SetTemplate == Addr("set", <<>>)

\* views.hydrate: the hook of this generation must cope with a nil map
hydrate(r, data) == IF data.isNil THEN data ELSE hook(r, data)

\* a faulty variant of the declaration: the Content-Type is left undeclared
undeclared(q) == q

\* w.Header().Set("Content-Type", streamMime), the first statement of RenderStream
declared(q) == [q EXCEPT !.header = streamMime]

\* the escaping html/template applies to a string printed in markup
EscapeToken(c) ==
    CASE c = "<" -> "&lt;"
      [] c = ">" -> "&gt;"
      [] c = "\"" -> "&#34;"
      [] OTHER -> c

Escape(s) == [i \in DOMAIN s |-> EscapeToken(s[i])]

\* a faulty variant of the wrapper: the content is a string, and is escaped
wrapperEscaped(action, target, content) ==
    <<"<turbo-stream action=\"">> \o Escape(<<action>>) \o <<"\" target=\"">> \o Escape(target)
      \o <<"\">", "\n", "  ", "<template>", "\n", "  ", "  ">> \o Escape(content)
      \o <<"\n", "  ", "</template>", "\n", "</turbo-stream>">>

\* the wrapper template executed with the action, the target and the content:
\* the action and the target are strings, escaped where they are printed; the
\* content is a template.HTML, printed as it is
wrapper(action, target, content) ==
    <<"<turbo-stream action=\"">> \o Escape(<<action>>) \o <<"\" target=\"">> \o Escape(target)
      \o <<"\">", "\n", "  ", "<template>", "\n", "  ", "  ">> \o content
      \o <<"\n", "  ", "</template>", "\n", "</turbo-stream>">>

\* the wrapper is executed into the response once the partial is rendered
streamed(q, b) ==
    IF b.err
    THEN [q EXCEPT !.pc = "done", !.err = "execution", !.why = b.why, !.buf = b.buf,
                   !.data = b.data]
    ELSE Written([q EXCEPT !.buf = b.buf, !.data = b.data], wrapper(q.action, q.target, b.w))

\* a faulty variant of RenderStream: the partial is looked up and rendered
\* whatever the action is
renderStreamAlways(q) ==
    IF q.name \notin DOMAIN setPartials.tmpl.blocks
    THEN [q EXCEPT !.pc = "done", !.err = "partial not found"]
    ELSE streamed([q EXCEPT !.block = q.name],
                  renderBuffered(SetTemplate :> setPartials.tmpl, <<>>, SetTemplate,
                                 q.name, q.data))

renderStream(q) ==
    IF q.action = ActionRemove THEN Written(q, wrapper(q.action, q.target, <<>>))
    ELSE IF q.name \notin DOMAIN setPartials.tmpl.blocks
    THEN [q EXCEPT !.pc = "done", !.err = "partial not found"]
    ELSE streamed([q EXCEPT !.block = q.name],
                  renderBuffered(SetTemplate :> setPartials.tmpl, <<>>, SetTemplate,
                                 q.name, q.data))

RenderStream(r, action, target, name, data) ==
    /\ gen = "turbo" /\ setErr = "nil"
    /\ req[r].pc = "idle"
    /\ req' = [req EXCEPT ![r] =
                 renderStream(declared(
                     [Idle EXCEPT !.entry = "RenderStream", !.name = name,
                                  !.action = action, !.target = target,
                                  !.data = IF setPartials.hydrate THEN hydrate(r, data)
                                           ELSE data]))]
    /\ UNCHANGED <<app, gen, fsys, heap, pages, partials, injectData, parseErr, appViews, appErr,
                   setPartials, setErr>>

(***************************************************************************)
(* Views.Render of the generation of RenderStream: the partials are one     *)
(* template set, the error is returned to the caller.                      *)
(***************************************************************************)
\* the execution of a block into the buffer, and the buffer into the response
turboExecuted(q, b) ==
    IF b.err
    THEN [q EXCEPT !.pc = "done", !.err = "execution", !.why = b.why, !.buf = b.buf,
                   !.data = b.data]
    ELSE Written([q EXCEPT !.buf = b.buf, !.data = b.data], b.w)

\* a faulty variant of Views.Render: the pages are looked up before the partials
renderTurboPageFirst(q) ==
    IF q.name \in DOMAIN pages /\ layoutOf(q.ctx) \in DOMAIN heap[pages[q.name]].blocks
    THEN turboExecuted([q EXCEPT !.tmpl = pages[q.name],
                                 !.block = IF q.ctx.strip THEN <<"main">> ELSE layoutOf(q.ctx)],
                       renderBuffered(heap, <<>>, pages[q.name],
                                      IF q.ctx.strip THEN <<"main">> ELSE layoutOf(q.ctx),
                                      q.data))
    ELSE IF q.name \in DOMAIN setPartials.tmpl.blocks
    THEN turboExecuted([q EXCEPT !.tmpl = SetTemplate, !.block = q.name],
                       renderBuffered(SetTemplate :> setPartials.tmpl, <<>>, SetTemplate,
                                      q.name, q.data))
    ELSE [q EXCEPT !.pc = "done", !.err = "view not found"]

renderTurbo(q) ==
    IF q.name \in DOMAIN setPartials.tmpl.blocks
    THEN turboExecuted([q EXCEPT !.tmpl = SetTemplate, !.block = q.name],
                       renderBuffered(SetTemplate :> setPartials.tmpl, <<>>, SetTemplate,
                                      q.name, q.data))
    ELSE IF q.name \notin DOMAIN pages
    THEN [q EXCEPT !.pc = "done", !.err = "view not found"]
    ELSE IF layoutOf(q.ctx) \notin DOMAIN heap[pages[q.name]].blocks
    THEN [q EXCEPT !.pc = "done", !.err = "layout not found"]
    ELSE turboExecuted([q EXCEPT !.tmpl = pages[q.name],
                                 !.block = IF q.ctx.strip THEN <<"main">> ELSE layoutOf(q.ctx)],
                       renderBuffered(heap, <<>>, pages[q.name],
                                      IF q.ctx.strip THEN <<"main">> ELSE layoutOf(q.ctx),
                                      q.data))

RenderTurbo(r, name, ctx, data) ==
    /\ gen = "turbo" /\ setErr = "nil"
    /\ req[r].pc = "idle"
    /\ req' = [req EXCEPT ![r] =
                 renderTurbo([Idle EXCEPT !.entry = "RenderTurbo", !.name = name, !.ctx = ctx,
                                          !.header = "text/html",
                                          !.data = IF setPartials.hydrate THEN hydrate(r, data)
                                                   ELSE data])]
    /\ UNCHANGED <<app, gen, fsys, heap, pages, partials, injectData, parseErr, appViews, appErr,
                   setPartials, setErr>>

(***************************************************************************)
(* The earlier Views.RenderStream kept in go.mod: a nil map is replaced,   *)
(* no hook is called, and errors are answered with ServerError.            *)
(***************************************************************************)
streamed0(q, b) ==
    IF b.err
    THEN ServerError([q EXCEPT !.buf = b.buf, !.data = b.data, !.body = b.w, !.why = b.why],
                     "execution")
    ELSE Written([q EXCEPT !.buf = b.buf, !.data = b.data], wrapper(q.action, q.target, b.w))

renderStream0(q) ==
    IF q.action = ActionRemove THEN Written(q, wrapper(q.action, q.target, <<>>))
    ELSE IF q.name \notin DOMAIN setPartials.tmpl.blocks
    THEN ServerError(q, "partial not found")
    ELSE streamed0([q EXCEPT !.block = q.name],
                   renderBuffered(SetTemplate :> setPartials.tmpl, <<>>, SetTemplate,
                                  q.name, q.data))

RenderStream0(r, action, target, name, data) ==
    /\ gen = "stream" /\ setErr = "nil"
    /\ req[r].pc = "idle"
    /\ req' = [req EXCEPT ![r] =
                 renderStream0(declared(
                     [Idle EXCEPT !.entry = "RenderStream0", !.name = name,
                                  !.action = action, !.target = target,
                                  !.data = IF data.isNil THEN MapData(EmptyMap) ELSE data]))]
    /\ UNCHANGED <<app, gen, fsys, heap, pages, partials, injectData, parseErr, appViews, appErr,
                   setPartials, setErr>>

(***************************************************************************)
(* The end of a request: the handler has returned, the copies made for the *)
(* request are dropped, and the server takes the next request.             *)
(***************************************************************************)
Done(r) ==
    /\ req[r].pc = "done"
    /\ req' = [req EXCEPT ![r] = Idle]
    /\ heap' = [a \in DOMAIN heap \ {CloneAddr(r)} |-> heap[a]]
    /\ UNCHANGED <<app, gen, fsys, pages, partials, injectData, parseErr, appViews, appErr,
                   setPartials, setErr>>

Gens == {"views", "web", "turbo", "stream"}

(***************************************************************************)
(* The application: the guest store, the session of a visitor, the events  *)
(* and their participations, and the middlewares that recognize a guest.   *)
(***************************************************************************)
\* the variables of the view engine, which the application leaves alone
engine == <<gen, fsys, heap, pages, partials, injectData, parseErr, appViews, appErr,
            setPartials, setErr, req>>

GuestIDs == 1..MaxGuests

EventIDs == 1..MaxEvents

\* the names guests have, by their rank in the order of strings
GuestNames == {1, 2}

AttendNoAnswer == 0

AttendYes == 2

\* the answers a participation is stored with
Attends == {AttendNoAnswer, AttendYes}

\* no row in a table
NoRow == -1

\* a nil *Guest
NilGuest == [ID |-> 0, Name |-> 0]

\* the findGuestByID in use: "raw" returns the error of Scan as it is, "mapped"
\* turns sql.ErrNoRows into ErrNoRecord
Finds == {"raw", "mapped"}

ErrNoRecord == "no record"

ErrNoRows == "sql: no rows in result set"

ErrBegin == "begin transaction"

\* the session without the key "guest"
NoSession == [exists |-> FALSE, guest |-> 0]

\* a request the middlewares have not seen yet: its context holds no value for
\* contextKeyCurrentGuest
NoVisit ==
    [pc |-> "idle", ctx |-> [set |-> FALSE, guest |-> NilGuest], status |-> 0,
     location |-> "", invoked |-> FALSE, by |-> "none", err |-> "nil"]

\* no call of FindEventByID has returned
NoFound == [pc |-> "idle", id |-> 0, err |-> "nil", Participations |-> <<>>]

\* the tables as migrations/00000000.sql creates them, and nobody visiting
AppIdle ==
    [find |-> "mapped",
     guests |-> [g \in GuestIDs |-> 0],
     events |-> {},
     participations |-> [p \in GuestIDs \X EventIDs |-> NoRow],
     session |-> NoSession,
     visit |-> NoVisit,
     found |-> NoFound]

\* is there a row of this id in the table guests
hasGuest(a, id) == id \in GuestIDs /\ a.guests[id] # 0

findGuestByID(a, id) ==
    IF hasGuest(a, id)
    THEN [guest |-> [ID |-> id, Name |-> a.guests[id]], err |-> "nil"]
    ELSE [guest |-> NilGuest,
          err |-> IF a.find = "mapped" THEN ErrNoRecord ELSE ErrNoRows]

\* GuestService.FindGuestByID: the transaction may fail to begin
FindGuestByID(a, id, fault) ==
    IF fault THEN [guest |-> NilGuest, err |-> ErrBegin] ELSE findGuestByID(a, id)

\* the id SQLite gives to a new row of a table whose ids are these: one more
\* than the largest
LastInsertId(ids) ==
    IF ids = {} THEN 1 ELSE (CHOOSE m \in ids : \A n \in ids : n <= m) + 1

guestRows(a) == {g \in GuestIDs : a.guests[g] # 0}

createGuest(a, name) ==
    [a EXCEPT !.guests[LastInsertId(guestRows(a))] = name]

\* DELETE FROM guests: the participations of the guest go with it (ON DELETE
\* CASCADE)
deleteGuest(a, id) ==
    [a EXCEPT !.guests[id] = 0,
              !.participations =
                  [p \in GuestIDs \X EventIDs |->
                      IF p[1] = id THEN NoRow ELSE a.participations[p]]]

createEvent(a) == [a EXCEPT !.events = @ \cup {LastInsertId(a.events)}]

deleteEvent(a, id) ==
    [a EXCEPT !.events = @ \ {id},
              !.participations =
                  [p \in GuestIDs \X EventIDs |->
                      IF p[2] = id THEN NoRow ELSE a.participations[p]]]

\* INSERT OR REPLACE INTO participations: the guest and the event the row refers
\* to must exist
participate(a, part) ==
    IF hasGuest(a, part.GuestID) /\ part.EventID \in a.events
    THEN [a EXCEPT !.participations[<<part.GuestID, part.EventID>>] = part.Attend]
    ELSE a

\* the rows of participations of an event from guest g on, each with its guest
\* attached
RECURSIVE participationsFrom(_, _, _)
participationsFrom(a, id, g) ==
    IF g > MaxGuests THEN [parts |-> <<>>, err |-> "nil"]
    ELSE IF a.participations[<<g, id>>] = NoRow THEN participationsFrom(a, id, g + 1)
    ELSE IF findGuestByID(a, g).err # "nil"
         THEN [parts |-> <<>>, err |-> findGuestByID(a, g).err]
    ELSE IF participationsFrom(a, id, g + 1).err # "nil"
         THEN participationsFrom(a, id, g + 1)
    ELSE [parts |-> <<[GuestID |-> g, Guest |-> findGuestByID(a, g).guest,
                       Attend |-> a.participations[<<g, id>>]]>>
                    \o participationsFrom(a, id, g + 1).parts,
          err |-> "nil"]

findParticipationsByEvent(a, id) == participationsFrom(a, id, 1)

RECURSIVE guestIDsOf(_)
guestIDsOf(parts) ==
    IF parts = <<>> THEN <<>> ELSE <<Head(parts).GuestID>> \o guestIDsOf(Tail(parts))

\* the guests the k-th and later pairs of a name and an id stand for, in the
\* order of the pairs: ORDER BY name
RECURSIVE guestsFrom(_, _, _)
guestsFrom(a, IDNotIn, k) ==
    IF k >= 2 * MaxGuests THEN <<>>
    ELSE IF /\ a.guests[(k % MaxGuests) + 1] = (k \div MaxGuests) + 1
            /\ \A i \in 1..Len(IDNotIn) : IDNotIn[i] # (k % MaxGuests) + 1
         THEN <<[ID |-> (k % MaxGuests) + 1, Name |-> (k \div MaxGuests) + 1]>>
                  \o guestsFrom(a, IDNotIn, k + 1)
         ELSE guestsFrom(a, IDNotIn, k + 1)

\* findGuests that forgets its filter
findGuestsAll(a, IDNotIn) == guestsFrom(a, <<>>, 0)

findGuests(a, IDNotIn) == guestsFrom(a, IDNotIn, 0)

\* the participation that stands for a guest who has not answered
RECURSIVE pending(_)
pending(guests) ==
    IF guests = <<>> THEN <<>>
    ELSE <<[GuestID |-> 0, Guest |-> Head(guests), Attend |-> AttendNoAnswer]>>
             \o pending(Tail(guests))

Less(parts, i, j) == parts[i].Guest.Name < parts[j].Guest.Name

Swap(parts, i, j) == [parts EXCEPT ![i] = parts[j], ![j] = parts[i]]

\* the inner loop of the insertion sort that sort.Sort runs on a short slice
RECURSIVE sink(_, _)
sink(parts, j) ==
    IF j > 1 /\ Less(parts, j, j - 1) THEN sink(Swap(parts, j, j - 1), j - 1)
    ELSE parts

RECURSIVE insertionSort(_, _)
insertionSort(parts, i) ==
    IF i > Len(parts) THEN parts ELSE insertionSort(sink(parts, i), i + 1)

ByGuestName(parts) == insertionSort(parts, 2)

\* the end of FindEventByID, from the participations that were found
attachPending(a, id, stored) ==
    IF stored.err # "nil"
    THEN [pc |-> "done", id |-> id, err |-> stored.err, Participations |-> <<>>]
    ELSE [pc |-> "done", id |-> id, err |-> "nil",
          Participations |->
              ByGuestName(stored.parts
                              \o pending(findGuests(a, guestIDsOf(stored.parts))))]

findEvent(a, id) ==
    IF id \notin a.events
    THEN [pc |-> "done", id |-> id, err |-> ErrNoRecord, Participations |-> <<>>]
    ELSE attachPending(a, id, findParticipationsByEvent(a, id))

\* currentGuest: the *Guest of the context, nil when there is none
currentGuest(ctx) == IF ctx.set THEN ctx.guest ELSE NilGuest

\* next.ServeHTTP(w, r.WithContext(ctx)) at the end of recognizeGuest
recognized(v, guest) ==
    [v EXCEPT !.pc = "next", !.ctx = [set |-> TRUE, guest |-> guest]]

\* recognizeGuest, with what FindGuestByID returned
recognizeFound(a, f) ==
    IF f.err = ErrNoRecord
    THEN [a EXCEPT !.session = NoSession, !.visit = recognized(a.visit, f.guest)]
    ELSE IF f.err # "nil"
    THEN [a EXCEPT !.visit = [@ EXCEPT !.pc = "done", !.status = 500,
                                       !.by = "recognizeGuest", !.err = f.err]]
    ELSE [a EXCEPT !.visit = recognized(a.visit, f.guest)]

recognizeGuest(a, fault) ==
    IF ~a.session.exists THEN [a EXCEPT !.visit.pc = "next"]
    ELSE recognizeFound(a, FindGuestByID(a, a.session.guest, fault))

requireRecognition(v) ==
    IF currentGuest(v.ctx) = NilGuest
    THEN [v EXCEPT !.pc = "done", !.status = 303, !.location = "/whoareyou",
                   !.by = "requireRecognition"]
    ELSE [v EXCEPT !.pc = "done", !.status = 200, !.invoked = TRUE, !.by = "handler"]

\* iAm: the id of the path is put in the session
IAm(id) ==
    /\ app.visit.pc = "idle"
    /\ app' = [app EXCEPT !.session = [exists |-> TRUE, guest |-> id]]
    /\ UNCHANGED engine

CreateGuest(name) ==
    /\ app.found.pc = "idle"
    /\ LastInsertId(guestRows(app)) <= MaxGuests
    /\ app' = createGuest(app, name)
    /\ UNCHANGED engine

DeleteGuest(id) ==
    /\ app.found.pc = "idle"
    /\ app' = deleteGuest(app, id)
    /\ UNCHANGED engine

CreateEvent ==
    /\ app.found.pc = "idle"
    /\ LastInsertId(app.events) <= MaxEvents
    /\ app' = createEvent(app)
    /\ UNCHANGED engine

DeleteEvent(id) ==
    /\ app.found.pc = "idle"
    /\ app' = deleteEvent(app, id)
    /\ UNCHANGED engine

Participate(part) ==
    /\ app.found.pc = "idle"
    /\ app' = participate(app, part)
    /\ UNCHANGED engine

FindEventByID(id) ==
    /\ app.found.pc = "idle"
    /\ app' = [app EXCEPT !.found = findEvent(app, id)]
    /\ UNCHANGED engine

\* the handler that asked for the event is done with it
Forget ==
    /\ app.found.pc = "done"
    /\ app' = [app EXCEPT !.found = NoFound]
    /\ UNCHANGED engine

RecognizeGuest(fault) ==
    /\ app.visit.pc = "idle"
    /\ app' = recognizeGuest(app, fault)
    /\ UNCHANGED engine

RequireRecognition ==
    /\ app.visit.pc = "next"
    /\ app' = [app EXCEPT !.visit = requireRecognition(app.visit)]
    /\ UNCHANGED engine

\* the response is sent and the next request of the visitor comes
Finish ==
    /\ app.visit.pc = "done"
    /\ app' = [app EXCEPT !.visit = NoVisit]
    /\ UNCHANGED engine


(***************************************************************************)
(* Specifications.                                                         *)
(***************************************************************************)
\* Spec: a tree with its faults is parsed by the three generations, and then
\* requests are served one at a time
Init ==
    /\ gen \in Gens
    /\ fsys \in Trees
    /\ heap = EmptyMap
    /\ pages = EmptyMap
    /\ partials = EmptyMap
    /\ injectData = FALSE
    /\ parseErr = "unparsed"
    /\ appViews = EmptyMap
    /\ appErr = "unparsed"
    /\ setPartials = [tmpl |-> NilTemplate, hydrate |-> FALSE]
    /\ setErr = "unparsed"
    /\ req = [r \in Reqs |-> Idle]
    /\ app = AppIdle

Serve(r) ==
    \/ \E name \in Names, ctx \in Overrides, turboFrame \in BOOLEAN, data \in Datas :
         Render(r, name, OptimizeTurboFrame(ctx, turboFrame), data)
    \/ RenderBuffered(r)
    \/ \E name \in Names, ctx \in Overrides, data \in Datas : AppRender(r, name, ctx, data)
    \/ \E name \in Names, action \in Actions, target \in Targets, data \in Datas :
         RenderStream(r, action, target, name, data)
    \/ \E name \in Names, ctx \in Overrides, turboFrame \in BOOLEAN, data \in Datas :
         RenderTurbo(r, name, OptimizeTurboFrame(ctx, turboFrame), data)
    \/ \E name \in Names, action \in Actions, target \in Targets, data \in Datas :
         RenderStream0(r, action, target, name, data)
    \/ Done(r)

Next ==
    \/ Parse
    \/ ParseViews
    \/ ParseSet
    \/ Serve("r1")

Spec == Init /\ [][Next]_vars

\* SpecConc: a sound tree has been parsed, and two requests are served concurrently
Sound(fs) == ~fs.walkErr /\ \A i \in 1..Len(fs.files) : fs.files[i].fault = "none"

InitConc ==
    /\ gen \in Gens
    /\ fsys \in {fs \in Trees : Sound(fs)}
    /\ injectData \in BOOLEAN
    /\ parseErr = "nil"
    /\ pages = IF gen \in {"turbo", "stream"} THEN pagesOf(ParseSetResult(fsys))
               ELSE pagesOf(ParseResult(fsys))
    /\ partials = IF gen \in {"turbo", "stream"} THEN EmptyMap
                  ELSE partialsOf(ParseResult(fsys))
    /\ heap = IF gen \in {"turbo", "stream"} THEN heapOfPages(ParseSetResult(fsys))
              ELSE heapOf(ParseResult(fsys))
    /\ setPartials = [tmpl |-> ParseSetResult(fsys).partials, hydrate |-> injectData]
    /\ appViews = parseViews(fsys).views
    /\ appErr = "nil"
    /\ setErr = "nil"
    /\ req = [r \in Reqs |-> Idle]
    /\ app = AppIdle

ServeConc(r) ==
    \/ \E name \in {<<"index">>, <<"nav">>, <<"bad">>, <<"ghost">>, <<"home">>} :
         Render(r, name, NoContext, NilData)
    \/ RenderBuffered(r)
    \/ \E name \in {<<"index">>, <<"nav">>} : AppRender(r, name, NoContext, NilData)
    \/ \E action \in {ActionAppend, ActionRemove}, name \in {<<"nav">>, <<"who">>},
          data \in Datas :
         RenderStream(r, action, <<"list">>, name, data)
    \/ \E action \in {ActionAppend, ActionRemove}, name \in {<<"nav">>, <<"who">>} :
         RenderStream0(r, action, <<"list">>, name, NilData)
    \/ Done(r)

NextConc == \E r \in Reqs : ServeConc(r)

SpecConc == InitConc /\ [][NextConc]_vars

\* SpecNames: a tree drawn for the classification and the naming of views is
\* parsed by one of the generations
InitNames ==
    /\ gen \in Gens
    /\ fsys \in NameTrees
    /\ heap = EmptyMap
    /\ pages = EmptyMap
    /\ partials = EmptyMap
    /\ injectData = FALSE
    /\ parseErr = "unparsed"
    /\ appViews = EmptyMap
    /\ appErr = "unparsed"
    /\ setPartials = [tmpl |-> NilTemplate, hydrate |-> FALSE]
    /\ setErr = "unparsed"
    /\ req = [r \in Reqs |-> Idle]
    /\ app = AppIdle

NextNames ==
    \/ Parse
    \/ ParseViews
    \/ ParseSet

SpecNames == InitNames /\ [][NextNames]_vars

\* SpecScope: a sound tree has been parsed by bow/views.go; the middlewares and
\* the handlers of two requests make copies of their request with WithLayout
\* and StripLayout, and render with the request they were given
InitScope ==
    /\ gen = "views"
    /\ fsys \in {fs \in Trees : Sound(fs) /\ Len(fs.files) = Len(Tree)}
    /\ injectData = FALSE
    /\ parseErr = "nil"
    /\ pages = pagesOf(ParseResult(fsys))
    /\ partials = partialsOf(ParseResult(fsys))
    /\ heap = heapOf(ParseResult(fsys))
    /\ setPartials = [tmpl |-> NilTemplate, hydrate |-> FALSE]
    /\ appViews = EmptyMap
    /\ appErr = "unparsed"
    /\ setErr = "unparsed"
    /\ req = [r \in Reqs |-> Idle]
    /\ app = AppIdle

ServeScope(r) ==
    \/ \E i \in 1..(MaxCopies + 1), layout \in {<<"alt">>, <<"ghost">>} :
         CallWithLayout(r, i, layout)
    \/ \E i \in 1..(MaxCopies + 1) : CallStripLayout(r, i)
    \/ \E i \in 1..(MaxCopies + 1) : ServeHTTP(r, i)
    \/ \E name \in {<<"home">>, <<"nav">>} : RenderHeld(r, name, NilData)
    \/ RenderBuffered(r)
    \/ Done(r)

NextScope == \E r \in Reqs : ServeScope(r)

SpecScope == InitScope /\ [][NextScope]_vars

\* SpecGuest: guests are created and deleted while a visitor says who they are
\* and sends requests through recognizeGuest and requireRecognition to a
\* protected handler
InitApp ==
    /\ gen = "views"
    /\ fsys \in {fs \in Trees : Sound(fs) /\ Len(fs.files) = Len(Tree)}
    /\ heap = EmptyMap
    /\ pages = EmptyMap
    /\ partials = EmptyMap
    /\ injectData = FALSE
    /\ parseErr = "unparsed"
    /\ appViews = EmptyMap
    /\ appErr = "unparsed"
    /\ setPartials = [tmpl |-> NilTemplate, hydrate |-> FALSE]
    /\ setErr = "unparsed"
    /\ req = [r \in Reqs |-> Idle]
    /\ \E find \in Finds : app = [AppIdle EXCEPT !.find = find]

NextGuest ==
    \/ \E id \in GuestIDs : IAm(id)
    \/ \E name \in GuestNames : CreateGuest(name)
    \/ \E id \in GuestIDs : DeleteGuest(id)
    \/ \E fault \in BOOLEAN : RecognizeGuest(fault)
    \/ RequireRecognition
    \/ Finish

SpecGuest == InitApp /\ [][NextGuest]_vars

\* SpecEvent: guests and events are created and deleted, guests answer, and an
\* event is asked for with its participations
NextEvent ==
    \/ \E name \in GuestNames : CreateGuest(name)
    \/ \E id \in GuestIDs : DeleteGuest(id)
    \/ CreateEvent
    \/ \E id \in EventIDs : DeleteEvent(id)
    \/ \E g \in GuestIDs, e \in EventIDs, attend \in Attends :
         Participate([GuestID |-> g, EventID |-> e, Attend |-> attend])
    \/ \E id \in EventIDs : FindEventByID(id)
    \/ Forget

SpecEvent == InitApp /\ [][NextEvent]_vars

(***************************************************************************)
(* Properties.                                                             *)
(***************************************************************************)
\* the request has gone through the lookup of its view and of its layout
Reached(q) == q.pc \in {"prepared", "done"}

\* the view named by the request is a page, a partial
IsPage(q) ==
    CASE q.entry = "Render" -> q.name \in DOMAIN pages /\ q.name \notin DOMAIN partials
      [] q.entry = "AppRender" -> q.name \in DOMAIN appViews /\ ~appViews[q.name].partial
      [] OTHER -> FALSE

IsPartial(q) ==
    CASE q.entry = "Render" -> q.name \in DOMAIN partials
      [] q.entry = "AppRender" -> q.name \in DOMAIN appViews /\ appViews[q.name].partial
      [] q.entry = "RenderStream" ->
           q.action # ActionRemove /\ q.name \in DOMAIN setPartials.tmpl.blocks
      [] OTHER -> FALSE

\* the blocks of the compiled view of the request
BlocksOf(q) ==
    CASE q.entry = "Render" /\ q.name \in DOMAIN partials -> DOMAIN heap[partials[q.name]].blocks
      [] q.entry = "Render" /\ q.name \notin DOMAIN partials -> DOMAIN heap[pages[q.name]].blocks
      [] q.entry = "AppRender" -> DOMAIN appViews[q.name].tmpl.blocks
      [] OTHER -> DOMAIN setPartials.tmpl.blocks

LayoutBase == Join(<<layoutsFolder, <<"base">>>>)

LayoutPartial == Join(<<layoutsFolder, <<"partial">>>>)

Tokens == {nosurfToken(r) : r \in Reqs}

\* C1 (buffered atomicity): when the execution of the template of a Render or
\* RenderStream call fails, nothing of what the template produced reaches the
\* response, and the error is reported: RenderStream and the Render of the turbo
\* engine return it with an untouched response, the other Renders answer with the
\* 500 failure response and nothing else. The
\* second part says that a failing execution of Views.Render is never taken for a
\* success: the step that executes a template whose execution fails ends with
\* the error.
C1_BufferedAtomicity ==
    /\ [](\A r \in Reqs :
            (req[r].pc = "done" /\ req[r].err = "execution") =>
                IF req[r].entry \in {"RenderStream", "RenderTurbo"}
                THEN req[r].body = <<>> /\ req[r].status = 0
                ELSE req[r].body = InternalServerError /\ req[r].status = 500)
    /\ [][\A r \in Reqs :
            (/\ req[r].pc = "prepared" /\ req'[r].pc = "done"
             /\ execute(heap, req[r].tmpl, req[r].block, req[r].data).err) =>
                /\ req'[r].err = "execution"
                /\ req'[r].body = InternalServerError]_vars

\* an execution failed after it had produced output
C1_Witness ==
    \E r \in Reqs :
        /\ req[r].pc = "done" /\ req[r].err = "execution"
        /\ req[r].entry \in {"Render", "RenderStream"}
        /\ req[r].buf # <<>>

\* C2 (concurrency isolation): of two Renders in progress at the same time, each
\* executes a template bound to the helper of its own request, with the token of
\* its own request in its data, and no token of the other request appears in what
\* it produced.
C2_ConcurrencyIsolation ==
    \A r \in Reqs :
        req[r].entry = "Render" =>
            /\ req[r].pc = "prepared" =>
                 /\ heap[req[r].tmpl].funcs = [bound |-> TRUE, req |-> r]
                 /\ req[r].data.kv["CSRFToken"] = nosurfToken(r)
            /\ req[r].pc = "done" =>
                 /\ \A i \in DOMAIN req[r].body :
                      req[r].body[i] \in Tokens => req[r].body[i] = nosurfToken(r)
                 /\ \A i \in DOMAIN req[r].buf :
                      req[r].buf[i] \in Tokens => req[r].buf[i] = nosurfToken(r)
                 /\ "CSRFToken" \in DOMAIN req[r].data.kv =>
                      req[r].data.kv["CSRFToken"] = nosurfToken(r)

\* one request has rendered the page with its nested partial while the other
\* one is between Funcs and the execution of the same page
C2_Witness ==
    /\ req["r1"].pc = "done" /\ req["r1"].entry = "Render" /\ req["r1"].name = <<"index">>
    /\ req["r1"].status = 200
    /\ req["r1"].body = <<"<base>", "idx:", "token-1", "nav:", "token-1", "</base>">>
    /\ req["r2"].pc = "prepared" /\ req["r2"].name = <<"index">>

\* the registry: the two mappings and the templates they hold, the views of
\* application, the template set of the partials
Registry ==
    <<pages, partials, [a \in Shared(heap) |-> heap[a]], appViews, setPartials>>

\* C3 (registry immutability): after a successful Parse no step of a Render or
\* RenderStream, successful or failing, alone or interleaved with another one,
\* changes the registry or a template in it; the helpers of a request are
\* installed on a copy made for that request only.
C3_RegistryImmutability ==
    [][/\ Registry' = Registry
       /\ \A r \in Reqs : req'[r].pc = "prepared" => req'[r].tmpl = CloneAddr(r)]_vars

\* a copy carries the helper of a request while the template it was copied
\* from is as Parse left it
C3_Witness ==
    \E r \in Reqs :
        /\ req[r].pc = "done" /\ req[r].entry = "Render" /\ req[r].name \in DOMAIN pages
        /\ CloneAddr(r) \in DOMAIN heap
        /\ heap[CloneAddr(r)].funcs.bound
        /\ heap[pages[req[r].name]] = heapOf(ParseResult(fsys))[pages[req[r].name]]

\* C4 (default layout): Render of a page, on a request with no layout override
\* and no skip flag, executes the block layouts/base of the compiled view of the
\* page (which holds that block); when the execution succeeds the response is the
\* page inside that layout.
C4_DefaultLayout ==
    \A r \in Reqs :
        (/\ Reached(req[r]) /\ IsPage(req[r])
         /\ ~req[r].ctx.hasLayout /\ ~req[r].ctx.strip
         /\ LayoutBase \in BlocksOf(req[r])) =>
            /\ req[r].block = LayoutBase
            /\ req[r].err \in {"nil", "execution"}
            /\ (req[r].pc = "done" /\ req[r].err = "nil") =>
                 /\ req[r].status = 200
                 /\ Head(req[r].body) = "<base>"
                 /\ req[r].body[Len(req[r].body)] = "</base>"

\* a page was rendered inside layouts/base on a request without override
C4_Witness ==
    \E r \in Reqs :
        /\ req[r].pc = "done" /\ req[r].name = <<"home">> /\ req[r].ctx = NoContext
        /\ req[r].block = LayoutBase /\ req[r].status = 200
        /\ Head(req[r].body) = "<base>"

\* the layout named by the override of the request
LayoutNamed(q) == Join(<<layoutsFolder, q.ctx.layout>>)

\* the request was answered with the failure response for a layout that is not
\* attached: nothing was executed, nothing of a template was written
LayoutNotFound(q) ==
    /\ q.pc = "done" /\ q.err = "layout not found"
    /\ q.block = <<>> /\ q.buf = <<>>
    /\ q.status = 500 /\ q.body = InternalServerError

\* C5 (explicit override), as stated: Render of a page whose request carries the
\* override L executes layouts/L when the page holds that block; when it does not,
\* Render reports layout-not-found, writes nothing rendered and executes neither
\* layouts/base nor main.
C5_Original ==
    \A r \in Reqs :
        (Reached(req[r]) /\ IsPage(req[r]) /\ req[r].ctx.hasLayout) =>
            IF LayoutNamed(req[r]) \in BlocksOf(req[r])
            THEN req[r].block = LayoutNamed(req[r]) /\ req[r].err \in {"nil", "execution"}
            ELSE LayoutNotFound(req[r])

\* C5 (explicit override), amended: Render of a page whose request carries the
\* override L and no skip flag executes layouts/L when the page holds that block
\* (with the skip flag it executes main); when the page does not hold it, with or
\* without the skip flag, Render reports layout-not-found, writes nothing rendered
\* and executes neither layouts/base nor main.
C5_ExplicitOverride ==
    \A r \in Reqs :
        (Reached(req[r]) /\ IsPage(req[r]) /\ req[r].ctx.hasLayout) =>
            IF LayoutNamed(req[r]) \in BlocksOf(req[r])
            THEN /\ req[r].block = IF req[r].ctx.strip THEN <<"main">> ELSE LayoutNamed(req[r])
                 /\ req[r].err \in {"nil", "execution"}
            ELSE LayoutNotFound(req[r])

\* a page was rendered inside the layout named by the override of its request
C5_Witness ==
    \E r \in Reqs :
        /\ req[r].pc = "done" /\ req[r].name = <<"home">>
        /\ req[r].ctx = WithLayout(NoContext, <<"alt">>)
        /\ req[r].status = 200 /\ Head(req[r].body) = "<alt>"

\* C6 (skip-layout first), as stated: a Render of a page on a request with the
\* skip flag executes the block main of the page, whatever the override and
\* whether layouts/base exists or not, and reports no layout-not-found error.
C6_SkipFirst ==
    \A r \in Reqs :
        (Reached(req[r]) /\ req[r].entry = "Render" /\ IsPage(req[r]) /\ req[r].ctx.strip) =>
            req[r].block = <<"main">> /\ req[r].err # "layout not found"

\* C7 (partial fixed layout), as stated: whenever a partial is rendered, through
\* Render or as the content of a stream, the block executed is the layout of
\* partials, whatever override the request carries.
C7_PartialFixedLayout ==
    \A r \in Reqs :
        (Reached(req[r]) /\ IsPartial(req[r])) => req[r].block = LayoutPartial

\* the layout a view gets when the request names none
LayoutDefault(q) == IF IsPartial(q) THEN LayoutPartial ELSE LayoutBase

\* C8 ("main" fallback), as stated: when the request carries no override and the
\* view does not hold its default layout (layouts/base for a page, layouts/partial
\* for a partial), Render executes the block main and reports no error for the
\* layout.
C8_MainFallback ==
    \A r \in Reqs :
        (/\ Reached(req[r]) /\ req[r].entry \in {"Render", "AppRender"}
         /\ IsPage(req[r]) \/ IsPartial(req[r])
         /\ ~req[r].ctx.hasLayout
         /\ LayoutDefault(req[r]) \notin BlocksOf(req[r])) =>
            req[r].block = <<"main">> /\ req[r].err \in {"nil", "execution"}

\* what Parse returned, in the generation of the behaviour
ParseReturned ==
    CASE gen = "views" -> parseErr
      [] gen = "web" -> appErr
      [] OTHER -> setErr

\* C9 (all-or-nothing build), as stated: when a discovered .html file, page,
\* partial or layout, cannot be read or parsed, Parse returns an error.
C9_AllOrNothing ==
    (/\ ParseReturned # "unparsed"
     /\ \E i \in 1..Len(fsys.files) :
          IsHtml(fsys.files[i].path) /\ fsys.files[i].fault # "none") =>
        ParseReturned # "nil"

\* C10 (no partial registry), as stated: when Parse returns an error, the
\* mappings of pages and of partials hold no entry.
C10_NoPartialRegistry ==
    ParseReturned \notin {"unparsed", "nil"} =>
        /\ pages = EmptyMap /\ partials = EmptyMap
        /\ appViews = EmptyMap
        /\ setPartials.tmpl = NilTemplate

(***************************************************************************)
(* Properties of the classification and the naming of views.               *)
(***************************************************************************)
\* the discovered .html files of the tree
HtmlFiles == {i \in 1..Len(fsys.files) : IsHtml(fsys.files[i].path)}

\* the files of the tree that the walk took for pages, for partials
PageFiles == {i \in HtmlFiles : Kind(fsys.files[i].path) = "page"}

PartialFiles == {i \in HtmlFiles : Kind(fsys.files[i].path) = "partial"}

NameAt(i) == templateName(fsys.files[i].path)

\* the two files are registered in the same registry: bow/views.go keeps pages
\* and partials apart, web.go keeps one map of views
SameRegistry(i, j) ==
    /\ {i, j} \subseteq PageFiles \cup PartialFiles
    /\ gen = "web" \/ {i, j} \subseteq PageFiles \/ {i, j} \subseteq PartialFiles

\* C11 (uniqueness), as stated: when two discovered files derive the same name
\* in the same registry, Parse returns an error; after a Parse that returned nil
\* no two files of one registry have the same name.
C11_Uniqueness ==
    ParseReturned = "nil" =>
        \A i, j \in HtmlFiles : (i # j /\ SameRegistry(i, j)) => NameAt(i) # NameAt(j)

\* the page, the partial of the file is registered under its name with the
\* content of the file as root block
PageRegistered(i) ==
    CASE gen = "views" ->
           /\ NameAt(i) \in DOMAIN pages
           /\ heap[pages[NameAt(i)]].blocks[<<"main">>] = Parsed(fsys.files[i].body)
      [] gen = "web" ->
           /\ NameAt(i) \in DOMAIN appViews
           /\ ~appViews[NameAt(i)].partial
           /\ appViews[NameAt(i)].tmpl.blocks[<<"main">>] = Parsed(fsys.files[i].body)
      [] OTHER -> TRUE

PartialRegistered(i) ==
    CASE gen = "views" ->
           /\ NameAt(i) \in DOMAIN partials
           /\ heap[partials[NameAt(i)]].blocks[<<"main">>] = Parsed(fsys.files[i].body)
      [] gen = "web" ->
           /\ NameAt(i) \in DOMAIN appViews
           /\ appViews[NameAt(i)].partial
           /\ appViews[NameAt(i)].tmpl.blocks[<<"main">>] = Parsed(fsys.files[i].body)
      [] OTHER ->
           /\ NameAt(i) \in DOMAIN setPartials.tmpl.blocks
           /\ setPartials.tmpl.blocks[NameAt(i)] = Parsed(fsys.files[i].body)

\* C12 (separate namespaces), as stated: when a page and a partial derive the
\* same name, Parse registers both, each with its own content: neither entry
\* replaces the other.
C12_SeparateNamespaces ==
    ParseReturned = "nil" =>
        \A i \in PageFiles, j \in PartialFiles :
            NameAt(i) = NameAt(j) => PageRegistered(i) /\ PartialRegistered(j)

\* the path of a discovered file relative to the root of the walk
Rel(root, path) == IF root = <<".">> THEN path ELSE SubSeq(path, Len(root) + 2, Len(path))

\* the kind the classification rules give a file: partial by the marker of its
\* base name, else layout by the first directory under the root, else page
KindByRule(root, path) ==
    LET segs == Split(Rel(root, path), PathSeparator)
    IN  IF Ext(path) # <<".", "html">> THEN "none"
        ELSE IF Head(segs[Len(segs)]) = partialPrefix THEN "partial"
        ELSE IF Len(segs) > 1 /\ segs[1] = layoutsFolder THEN "layout"
        ELSE "page"

\* the name the derivation rule gives a file: its path relative to the root,
\* without the extension and without one leading marker of the base name
NameByRule(root, path) ==
    LET segs == Split(Rel(root, path), PathSeparator)
        stem == SubSeq(segs[Len(segs)], 1, Len(segs[Len(segs)]) - 2)
    IN  Join(SubSeq(segs, 1, Len(segs) - 1)
             \o <<IF stem # <<>> /\ Head(stem) = partialPrefix THEN Tail(stem) ELSE stem>>)

\* the names under which the files of a kind are registered, the kind taken
\* from the rules and the name from the code
KindNames(kind) ==
    {NameAt(i) : i \in {j \in 1..Len(fsys.files) :
                          KindByRule(fsys.root, fsys.files[j].path) = kind}}

\* the same, the kind taken from the code and the name from the rule
RuleNames(kind) ==
    {NameByRule(fsys.root, fsys.files[i].path) :
        i \in {j \in HtmlFiles : Kind(fsys.files[j].path) = kind}}

\* the registries hold the given names of pages and partials, and the views
\* hold the given names of layouts (and of partials, where they are attached)
Holds(pg, pt, ly) ==
    CASE gen = "views" ->
           /\ DOMAIN pages = pg /\ DOMAIN partials = pt
           /\ \A n \in DOMAIN pages : DOMAIN heap[pages[n]].blocks = {<<"main">>} \cup ly
      [] gen = "web" ->
           /\ DOMAIN appViews = pg \cup pt
           /\ \A n \in DOMAIN appViews :
                DOMAIN appViews[n].tmpl.blocks = {<<"main">>} \cup ly \cup pt
      [] OTHER -> DOMAIN setPartials.tmpl.blocks = {<<"main">>} \cup pt

\* C13 (classification order), as stated: every discovered .html file gets one
\* kind: partial when its base name starts with the marker, even inside the
\* layouts folder; otherwise layout when the first directory after the root is
\* layouts; otherwise page; files with another extension are not registered.
C13_ClassificationOrder ==
    ParseReturned = "nil" =>
        Holds(KindNames("page"), KindNames("partial"), KindNames("layout"))

\* C14 (logical name derivation), as stated: for every root (one segment,
\* several segments, ".") the name of a discovered file is its path relative to
\* the root without the extension and without one leading marker of the base
\* name; a layout keeps the layouts segment.
C14_NameDerivation ==
    ParseReturned = "nil" =>
        Holds(RuleNames("page"), RuleNames("partial"), RuleNames("layout"))

\* C15 (totality), as stated: Parse yields a kind and a name for every .html
\* path under the root, also for the base names ".html" and "_.html", without
\* an out-of-range access.
C15_Total == ParseReturned # "panic"

(***************************************************************************)
(* Properties of the composition of the compiled views.                    *)
(***************************************************************************)
LayoutFiles == {i \in HtmlFiles : Kind(fsys.files[i].path) = "layout"}

LayoutNames == {NameAt(i) : i \in LayoutFiles}

PartialNames == {NameAt(i) : i \in PartialFiles}

\* the registered pages, partials and their blocks (bow/views.go and web.go)
PagesRegistered ==
    CASE gen = "views" -> DOMAIN pages
      [] gen = "web" -> {n \in DOMAIN appViews : ~appViews[n].partial}
      [] OTHER -> {}

PartialsRegistered ==
    CASE gen = "views" -> DOMAIN partials
      [] gen = "web" -> {n \in DOMAIN appViews : appViews[n].partial}
      [] OTHER -> {}

BlocksOfPage(n) == IF gen = "views" THEN heap[pages[n]].blocks ELSE appViews[n].tmpl.blocks

BlocksOfPartial(n) ==
    IF gen = "views" THEN heap[partials[n]].blocks ELSE appViews[n].tmpl.blocks

\* the content of the file of the given set that has the name n
ContentOf(files, n) == Parsed(fsys.files[CHOOSE i \in files : NameAt(i) = n].body)

\* every layout that could be parsed is a block of the view, with its content
LayoutsIn(blocks) ==
    \A i \in LayoutFiles :
        /\ NameAt(i) \in DOMAIN blocks
        /\ fsys.files[i].fault = "none" => blocks[NameAt(i)] = Parsed(fsys.files[i].body)

PartialsIn(blocks) ==
    \A i \in PartialFiles :
        /\ NameAt(i) \in DOMAIN blocks
        /\ fsys.files[i].fault = "none" => blocks[NameAt(i)] = Parsed(fsys.files[i].body)

Printed(q) == {q.body[i] : i \in DOMAIN q.body}

Unknown(q) ==
    CASE q.entry = "Render" -> q.name \notin DOMAIN pages \cup DOMAIN partials
      [] q.entry = "AppRender" -> q.name \notin DOMAIN appViews
      [] OTHER -> FALSE

C20_StreamRemove ==
    \A r \in Reqs :
        (req[r].pc = "done" /\ req[r].entry \in {"RenderStream", "RenderStream0"}
         /\ req[r].action = ActionRemove) =>
            /\ req[r].err = "nil" /\ req[r].status = 200
            /\ req[r].block = <<>> /\ req[r].buf = <<>>
            /\ req[r].header = streamMime
            /\ req[r].body = wrapper(ActionRemove, req[r].target, <<>>)

\* a removal was streamed for a name that is not registered
C20_Witness ==
    \E r \in Reqs :
        /\ req[r].pc = "done" /\ req[r].entry = "RenderStream"
        /\ req[r].action = ActionRemove /\ req[r].name = <<"ghost">>
        /\ req[r].status = 200 /\ req[r].target = <<"list">>

(***************************************************************************)
(* Properties of the streams.                                              *)
(***************************************************************************)
\* the response holds a piece of the stream envelope
Enveloped(q) ==
    \E i \in 1..Len(q.body) : q.body[i] \in {"<turbo-stream action=\"", "<template>",
                                             "</template>", "</turbo-stream>"}

\* the request asked RenderStream for something else than a removal, with a
\* name that no partial file of the tree gives
StreamOfUnknown(q) ==
    /\ q.pc = "done" /\ q.entry \in {"RenderStream", "RenderStream0"}
    /\ q.action # ActionRemove /\ q.name \notin PartialNames

\* C21 (stream view not found): RenderStream with an action other than remove
\* and a name that is not the name of a partial reports a not-found error,
\* and no byte of an envelope is written to the response.
C21_StreamNotFound ==
    \A r \in Reqs :
        StreamOfUnknown(req[r]) =>
            /\ req[r].err = "partial not found"
            /\ ~Enveloped(req[r])

\* the same, for every name but the one of the root template of the set
C21_NotFoundButRoot ==
    \A r \in Reqs :
        (StreamOfUnknown(req[r]) /\ req[r].name # <<"main">>) =>
            /\ req[r].err = "partial not found"
            /\ ~Enveloped(req[r])

\* no envelope is written for a name that no partial file gives
C21_NoEnvelope == \A r \in Reqs : StreamOfUnknown(req[r]) => ~Enveloped(req[r])

\* C22 (stream content type): every response in which RenderStream delivers an
\* envelope declares the content type text/vnd.turbo-stream.html, and declares
\* it before the first byte of the body: it is the type that leaves with the
\* body.
C22_StreamContentType ==
    \A r \in Reqs :
        (req[r].entry \in {"RenderStream", "RenderStream0"} /\ Enveloped(req[r])) =>
            /\ req[r].header = streamMime
            /\ req[r].wire = streamMime

\* an envelope that carries a rendered partial was delivered
C22_Witness ==
    \E r \in Reqs :
        /\ req[r].pc = "done" /\ req[r].entry \in {"RenderStream", "RenderStream0"}
        /\ req[r].action = ActionAppend /\ req[r].name = <<"who">>
        /\ Enveloped(req[r]) /\ req[r].wire = streamMime

\* the request asked RenderStream to append the partial item to the target list
AppendsItem(q) ==
    /\ q.pc = "done" /\ q.entry \in {"RenderStream", "RenderStream0"}
    /\ q.action = ActionAppend /\ q.target = <<"list">> /\ q.name = <<"item">>

\* C23 as stated (stream envelope literal): when the partial item renders to
\* <li>X</li>, RenderStream with append and the target list writes the opening
\* tags, a newline, the markup of the partial, a newline and the closing tags,
\* with no other character or white space.
C23_Original ==
    \A r \in Reqs :
        AppendsItem(req[r]) =>
            req[r].body = <<"<turbo-stream action=\"", "append", "\" target=\"", "list", "\">",
                            "<template>", "\n", "<", "li", ">", "X", "<", "/", "li", ">", "\n",
                            "</template>", "</turbo-stream>">>

\* C23 (stream envelope literal): when the partial item renders to <li>X</li>,
\* RenderStream with append and the target list writes the envelope with the
\* line breaks and the indentation of the wrapper template: a newline and two
\* spaces before <template>, a newline and four spaces before the markup, a
\* newline and two spaces before </template>, a newline before
\* </turbo-stream>; the markup of the partial is inserted as it is, unescaped.
C23_StreamLiteral ==
    \A r \in Reqs :
        AppendsItem(req[r]) =>
            /\ req[r].err = "nil"
            /\ req[r].buf = <<"<", "li", ">", "X", "<", "/", "li", ">">>
            /\ req[r].body = <<"<turbo-stream action=\"", "append", "\" target=\"", "list", "\">",
                               "\n", "  ", "<template>", "\n", "  ", "  ",
                               "<", "li", ">", "X", "<", "/", "li", ">",
                               "\n", "  ", "</template>", "\n", "</turbo-stream>">>

\* the partial item was appended to the target list
C23_Witness ==
    \E r \in Reqs :
        /\ AppendsItem(req[r]) /\ req[r].entry = "RenderStream"
        /\ req[r].status = 200 /\ Len(req[r].body) = 24

(***************************************************************************)
(* Properties of the nested partials.                                      *)
(***************************************************************************)
\* the names the body gives to the partial helper
Called(body) ==
    {body[i].arg : i \in {j \in 1..Len(body) : body[j].op \in {"partial", "partialnil"}}}

\* the execution of the request's template enters the main block of its view:
\* main is the block asked for, or the layout asked for is parsed and includes it
RunsMain(q) ==
    /\ q.tmpl \in DOMAIN heap
    /\ heap[q.tmpl].blocks[<<"main">>].parsed
    /\ q.block # <<"main">> =>
         (q.block \in DOMAIN heap[q.tmpl].blocks /\ heap[q.tmpl].blocks[q.block].parsed)

\* the partial n is registered and its own execution fails
Failing(n) ==
    /\ n \in DOMAIN partials
    /\ \E i \in 1..Len(heap[partials[n]].blocks[<<"main">>].body) :
           heap[partials[n]].blocks[<<"main">>].body[i].op = "fail"

\* Render has executed a view whose main block calls a partial that does not
\* exist (absent = TRUE) or whose execution fails (absent = FALSE)
NestedFailure(q, absent) ==
    /\ q.entry = "Render" /\ q.pc = "done" /\ q.block # <<>>
    /\ RunsMain(q)
    /\ \E n \in Called(heap[q.tmpl].blocks[<<"main">>].body) :
           IF absent THEN n \notin DOMAIN partials ELSE Failing(n)

\* C24 (nested partial failure propagates): when a rendered template calls the
\* partial helper with a name that is not registered, or the nested partial
\* fails, the enclosing Render fails with that error, and nothing of what the
\* enclosing view had rendered reaches the response: only the 500 response does.
C24_NestedFailure ==
    \A r \in Reqs :
        /\ NestedFailure(req[r], TRUE) =>
             /\ req[r].err = "execution" /\ req[r].why = "partial not found"
             /\ req[r].status = 500 /\ req[r].body = InternalServerError
        /\ NestedFailure(req[r], FALSE) =>
             /\ req[r].err = "execution" /\ req[r].why = "fail"
             /\ req[r].status = 500 /\ req[r].body = InternalServerError

\* the page wrap was rendered in its layout: the layout and the page had
\* printed into the buffer when the partial oops failed
C24_Witness ==
    \E r \in Reqs :
        /\ NestedFailure(req[r], FALSE)
        /\ req[r].name = <<"wrap">> /\ req[r].buf = <<"<base>", "wrap:">>
        /\ req[r].why = "fail"

\* the page index was rendered and called the partial nav, which no file gives
C24_WitnessAbsent ==
    \E r \in Reqs :
        /\ NestedFailure(req[r], TRUE)
        /\ req[r].name = <<"index">> /\ req[r].why = "partial not found"
        /\ Len(req[r].buf) > 0

(***************************************************************************)
(* Properties of the root block of the compiled views.                     *)
(***************************************************************************)
\* the block main of the compiled view is the content of a file of the given
\* set that derives the name n
OwnContent(blocks, n, files) ==
    /\ <<"main">> \in DOMAIN blocks
    /\ \E i \in files : NameAt(i) = n /\ blocks[<<"main">>] = Parsed(fsys.files[i].body)

\* C25 (root block integrity): in every compiled view that Parse produced, the
\* block main is the content of the view's own file; attaching layouts and
\* partials does not replace it, also when an attached file derives the name
\* main, like root/_main.html.
C25_RootBlock ==
    ParseReturned = "nil" =>
        CASE gen = "views" ->
               /\ \A n \in DOMAIN pages : OwnContent(heap[pages[n]].blocks, n, PageFiles)
               /\ \A n \in DOMAIN partials :
                    OwnContent(heap[partials[n]].blocks, n, PartialFiles)
          [] gen = "web" ->
               \A n \in DOMAIN appViews :
                   OwnContent(appViews[n].tmpl.blocks, n,
                              IF appViews[n].partial THEN PartialFiles ELSE PageFiles)
          [] OTHER -> \A n \in DOMAIN pages : OwnContent(heap[pages[n]].blocks, n, PageFiles)

\* the same, where no file is attached to a view under the name main
C25_RootBlockViews == gen = "views" => C25_RootBlock

(***************************************************************************)
(* Properties of the lookup of Render.                                     *)
(***************************************************************************)
\* Render was asked for a name that both a page and a partial are registered
\* under, and has gone through its lookups
BothKinds(q) ==
    /\ Reached(q) /\ q.name \in DOMAIN pages
    /\ CASE q.entry = "Render" -> q.name \in DOMAIN partials
         [] q.entry = "RenderTurbo" ->
              q.name \in PartialNames /\ q.name \in DOMAIN setPartials.tmpl.blocks
         [] OTHER -> FALSE

\* the content of the partial of the request, the content of its page
PartialBody(q) ==
    IF q.entry = "Render" THEN heap[partials[q.name]].blocks[<<"main">>]
    ELSE setPartials.tmpl.blocks[q.name]

PageBody(q) == heap[pages[q.name]].blocks[<<"main">>]

\* the request executes the partial, without any layout, and not the page:
\* the block it executes holds the content of the partial, no lookup of a page
\* or of a layout has failed, and what it has written is what the partial prints
PartialRendered(q) ==
    /\ q.tmpl \in DOMAIN heap \cup {SetTemplate}
    /\ q.tmpl # pages[q.name]
    /\ (IF q.tmpl = SetTemplate THEN setPartials.tmpl ELSE heap[q.tmpl]).blocks[q.block]
         = PartialBody(q)
    /\ PartialBody(q) # PageBody(q)
    /\ q.pc = "done" => q.err \in {"nil", "execution"}
    /\ (q.pc = "done" /\ q.err = "nil") =>
         /\ q.status = 200
         /\ q.body = q.buf /\ Len(q.body) = Len(PartialBody(q).body)
         /\ Head(q.body) = Head(PartialBody(q).body).arg[1]

\* C26 as stated (lookup precedence): when the name is registered as both,
\* Render renders the partial through the block main and never executes the
\* page, whatever the layout override and the skip flag of the request.
C26_Original ==
    \A r \in Reqs :
        BothKinds(req[r]) => (req[r].block = <<"main">> /\ PartialRendered(req[r]))

\* C26 (lookup precedence): Render consults the partials before the pages, so
\* when the name is registered as both, the partial is rendered through its
\* own root block, without a layout, and the page is never executed, whatever
\* the layout override and the skip flag of the request.  The root block of a
\* partial is the block main of its compiled view where partials are compiled
\* one by one, and the block of its own name where the partials are one
\* template set.
C26_LookupPrecedence ==
    \A r \in Reqs :
        BothKinds(req[r]) =>
            /\ req[r].block = IF req[r].entry = "Render" THEN <<"main">> ELSE req[r].name
            /\ PartialRendered(req[r])

\* nav, a page and a partial, was rendered on a request that carries a layout
\* override and the skip flag
C26_Witness ==
    \E r \in Reqs :
        /\ BothKinds(req[r]) /\ req[r].pc = "done" /\ req[r].name = <<"nav">>
        /\ req[r].ctx.hasLayout /\ req[r].ctx.strip
        /\ Head(req[r].body) = "nav:"

\* the same in the generation where the partials are one template set
C26_WitnessSet ==
    \E r \in Reqs :
        /\ BothKinds(req[r]) /\ req[r].entry = "RenderTurbo" /\ req[r].name = <<"nav">>
        /\ req[r].ctx.hasLayout /\ req[r].body = <<"nav:", "<no value>">>

(***************************************************************************)
(* Properties of the data handed to the injectors.                         *)
(***************************************************************************)
\* Views.Render has chosen the template of the request and injected its data
Injected(q) == q.entry = "Render" /\ Reached(q) /\ q.block # <<>>

\* the page nest, which hands nil to the partials nav and who, was rendered
NestRendered(q) ==
    /\ q.entry = "Render" /\ q.pc = "done" /\ q.name = <<"nest">> /\ q.block # <<>>
    /\ RunsMain(q) /\ <<"nav">> \in DOMAIN partials

BlockFor(ctx) == IF ctx.strip THEN <<"main">> ELSE layoutOf(ctx)

\* C28 (overrides are request-scoped): WithLayout and StripLayout return a new
\* request and leave the context of the request they are given unchanged.
\* First part: the request the server made never carries an override, and a
\* Render is decided by the context of the request it is called with: a page
\* is executed through the block that context asks for, or refused when the
\* layout it names does not exist.  Second part: a step that makes a copy adds
\* one request, changes the context of no request made before, and changes
\* nothing of any other request.
C28_RequestScoped ==
    /\ [](\A r \in Reqs :
            /\ req[r].held[1] = NoContext
            /\ (req[r].entry = "Render" /\ req[r].with # 0 /\ Reached(req[r])) =>
                 /\ req[r].ctx = req[r].held[req[r].with]
                 /\ (req[r].name = <<"home">> /\ req[r].block # <<>>) =>
                      req[r].block = BlockFor(req[r].held[req[r].with])
                 /\ (req[r].name = <<"home">> /\ req[r].block = <<>>) =>
                      /\ req[r].err = "layout not found"
                      /\ req[r].held[req[r].with].layout = <<"ghost">>)
    /\ [][\A r \in Reqs :
            Len(req'[r].held) > Len(req[r].held) =>
                /\ Len(req'[r].held) = Len(req[r].held) + 1
                /\ \A i \in 1..Len(req[r].held) : req'[r].held[i] = req[r].held[i]
                /\ \A o \in Reqs \ {r} : req'[o] = req[o]]_vars

\* a copy with a layout and a copy of that copy without layout were made for
\* r1; r1 was rendered with the request of the server, in the default layout,
\* while r2, whose request nobody copied, was rendered in the default layout too
C28_Witness ==
    /\ req["r1"].held = <<NoContext, WithLayout(NoContext, <<"alt">>),
                          StripLayout(WithLayout(NoContext, <<"alt">>))>>
    /\ req["r1"].with = 1 /\ req["r1"].pc = "done" /\ req["r1"].name = <<"home">>
    /\ req["r1"].body = <<"<base>", "home:", "token-1", "<no value>", "</base>">>
    /\ req["r2"].held = <<NoContext>> /\ req["r2"].pc = "done"
    /\ req["r2"].body = <<"<base>", "home:", "token-2", "<no value>", "</base>">>

\* r1 was rendered with the copy that carries the layout alt
C28_WitnessCopy ==
    /\ req["r1"].held = <<NoContext, WithLayout(NoContext, <<"alt">>)>>
    /\ req["r1"].with = 2 /\ req["r1"].pc = "done" /\ req["r1"].name = <<"home">>
    /\ req["r1"].body = <<"<alt>", "home:", "token-1", "<no value>", "</alt>">>

\* recognizeGuest runs on the request of the visitor
RecognizeStep == app.visit.pc = "idle" /\ app'.visit.pc # "idle"

\* the session holds the id of a guest that has no record
Stale(a) == a.session.exists /\ ~hasGuest(a, a.session.guest)

\* after recognizeGuest the request carries a current guest only if the session
\* held the id of a guest of the store, and that guest is the one it carries
OnlyKnown ==
    (RecognizeStep /\ currentGuest(app'.visit.ctx) # NilGuest) =>
        /\ app.session.exists
        /\ hasGuest(app, app.session.guest)
        /\ currentGuest(app'.visit.ctx).ID = app.session.guest

\* when the id of the session has no record and the store could be asked, the key
\* is removed and the request goes on without a current guest
StaleForgotten ==
    (RecognizeStep /\ Stale(app) /\ app'.visit.err # ErrBegin) =>
        /\ ~app'.session.exists
        /\ app'.visit.pc = "next"
        /\ currentGuest(app'.visit.ctx) = NilGuest

\* a request that went past recognizeGuest without a current guest is redirected
\* to /whoareyou, and the protected handler is invoked for recognized requests only
Redirected ==
    /\ app.visit.invoked => currentGuest(app.visit.ctx) # NilGuest
    /\ (/\ app.visit.pc = "done" /\ app.visit.by # "recognizeGuest"
        /\ currentGuest(app.visit.ctx) = NilGuest) =>
           /\ app.visit.status = 303
           /\ app.visit.location = "/whoareyou"
           /\ ~app.visit.invoked

C29_MappedRecognition ==
    [][app.find = "mapped" => (OnlyKnown /\ StaleForgotten)]_vars /\ []Redirected

\* C29, what holds for both findGuestByID: no request reaches the protected
\* handler without a current guest that was in the store when it was recognized,
\* and a request whose session id has no record never reaches it
C29_NeverInvoked ==
    /\ [][OnlyKnown /\ (Stale(app) /\ RecognizeStep =>
                            currentGuest(app'.visit.ctx) = NilGuest)]_vars
    /\ [](app.visit.invoked => currentGuest(app.visit.ctx) # NilGuest)

\* the request of a visitor whose session id has no record was redirected, and
\* the key is gone
C29_WitnessRedirected ==
    /\ app.find = "mapped"
    /\ app.visit.pc = "done" /\ app.visit.status = 303
    /\ app.visit.ctx.set /\ ~app.session.exists

\* the request of a visitor whose session id has no record was answered with the
\* 500 response, and the key is still there
C29_WitnessFailed ==
    /\ app.find = "raw"
    /\ app.visit.pc = "done" /\ app.visit.status = 500
    /\ app.visit.err = ErrNoRows /\ app.session.exists

\* the places of a guest among the participations
PlacesOf(parts, g) == {i \in 1..Len(parts) : parts[i].Guest.ID = g}

\* the participation of a guest is the stored answer if there is one, and the
\* placeholder without answer if there is none
AnswerOf(a, id, part) ==
    IF a.participations[<<part.Guest.ID, id>>] # NoRow
    THEN /\ part.GuestID = part.Guest.ID
         /\ part.Attend = a.participations[<<part.Guest.ID, id>>]
    ELSE part.GuestID = 0 /\ part.Attend = AttendNoAnswer

C30_UnknownEvent ==
    (app.found.pc = "done" /\ app.found.id \notin app.events) =>
        app.found.err = ErrNoRecord /\ app.found.Participations = <<>>

====
